---------------------------- MODULE Spec2Model ----------------------------
(***************************************************************************)
(* fastapi-radar: the background task tracker                              *)
(* (src/fastapi_radar/background_tasks/tracker.py).                        *)
(*                                                                         *)
(* Threads call wrap / runner / rerun / clear on one BackgroundTaskTracker.*)
(* Every `with self._lock:` block is one atomic step; the code between two *)
(* lock blocks of one call (reading the clock, the broadcast, the call of  *)
(* the wrapped callable) is a step of its own, so other threads interleave *)
(* exactly where the code lets them.                                       *)
(*                                                                         *)
(* Time: _now() reads a wall clock in whole milliseconds that never runs   *)
(* backwards; `now` is the value of its last read, and a read returns any  *)
(* value from `now` on (two reads may return the same value).  uuid4() is  *)
(* modelled by a counter: every call yields a fresh id.                    *)
(***************************************************************************)
EXTENDS Integers, Sequences, FiniteSets, TLC

\* ------------------------------------------------------------- bounds
\* wrap calls explored with two threads (Spec) and with one (SpecOne)
MaxIds == 2
MaxOneIds == 3
\* create_span calls explored on one trace context
MaxSpans == 2
\* spans created before traces are saved and queried
MaxRows == 3
\* add_span_log calls explored per span
MaxLogs == 1
\* spans the instrumentation hooks create
MaxHookSpans == 2
\* captured queries stored
MaxQueries == 1
\* captured queries stored while the statements vary
MaxStored == 2
\* wrap calls explored while websockets are served
MaxSubIds == 1
\* the largest max_tasks a tracker is constructed with
MaxCap == 2
\* the last clock value
MaxClock == 1
\* SpecSeq wraps and runs max_tasks + Extra tasks
Extra == 5

Threads == {"t1", "t2", "t3"}

\* the threads of the two-thread specifications
Workers == {"t1", "t2"}

\* ------------------------------------------------- values of the program
\* Optional[datetime] = None, Optional[float] = None
None == -1
\* Optional[str] = None
NoStr == "<None>"
\* datetime.max, the sort key of an absent ended_at / started_at
DatetimeMax == 9999

\* The callables handed to wrap.  f1 and f2 are two distinct callables with
\* the same __module__ and __qualname__ (two lambdas of one scope, two
\* closures of one factory); g is another function.
Funcs == {"f1", "f2", "g"}
NoFunc == "<absent>"

Qualname(f) == IF f \in {"f1", "f2"} THEN "<lambda>" ELSE "g"

\* inspect.signature(func): the names of the positional parameters
Params(f) == CASE f = "f1" -> <<"x">>
               [] f = "f2" -> <<"y">>
               [] OTHER    -> <<>>

\* _function_key: f"{module}:{qualname}"; every function here is of module "app"
FunctionKey(f) == <<"app", Qualname(f)>>

Keys == {FunctionKey(f) : f \in Funcs}

\* The (callable, positional arguments) pairs the threads wrap.
Calls == { <<"f1", <<"int:1">> >>, <<"f2", <<"int:1">> >>, <<"g", <<"obj:A">> >> }

\* _to_serializable: primitives pass through, anything else becomes repr(value)
ToSerializable(v) == IF v = "int:1" THEN "1" ELSE "repr(A)"

\* _serialize_call_arguments with no keyword arguments: when
\* signature.bind_partial(*args) succeeds the arguments are rendered by
\* parameter name and serialized_args is emptied; when it raises (too many
\* positional arguments) the positional rendering is kept.
SerializeCallArguments(f, a) ==
    IF Len(a) <= Len(Params(f))
    THEN [args   |-> <<>>,
          kwargs |-> [i \in 1..Len(a) |-> <<Params(f)[i], ToSerializable(a[i])>>]]
    ELSE [args   |-> [i \in 1..Len(a) |-> ToSerializable(a[i])],
          kwargs |-> <<>>]

\* What a call of the wrapped callable does: it returns, it raises an
\* Exception whose str() is the given message (possibly the empty string, as
\* for `raise ValueError()` or a failed `assert`), or it raises a
\* BaseException that is no Exception (SystemExit, asyncio.CancelledError).
ExcMessages == {"", "boom"}

\* traceback.format_exc() inside the except block: never empty
FormatExc(msg) == "Traceback (most recent call last): " \o msg

\* TrackedTask(...) as wrap builds it
NewTask(id, f, a, q) ==
    [id                |-> id,
     function_key      |-> FunctionKey(f),
     function_name     |-> Qualname(f),
     queued_at         |-> q,
     status            |-> "queued",
     started_at        |-> None,
     ended_at          |-> None,
     args_serialized   |-> SerializeCallArguments(f, a).args,
     kwargs_serialized |-> SerializeCallArguments(f, a).kwargs,
     error_message     |-> NoStr,
     error_trace       |-> NoStr,
     args              |-> a]

DurationMs_Swapped(r) ==
    IF r.started_at = None \/ r.ended_at = None
    THEN None
    ELSE r.started_at - r.ended_at

\* TrackedTask.duration_ms: whole milliseconds, so round(.., 2) is exact
DurationMs(r) ==
    IF r.started_at = None \/ r.ended_at = None
    THEN None
    ELSE r.ended_at - r.started_at

\* datetime.isoformat() of an Optional[datetime]: None stays absent
IsoOrNone(ts) == IF ts = None THEN <<>> ELSE <<"iso", ts>>

\* TrackedTask.to_dict
ToDict(r) ==
    [id            |-> r.id,
     function_key  |-> r.function_key,
     function_name |-> r.function_name,
     status        |-> r.status,
     queued_at     |-> IsoOrNone(r.queued_at),
     started_at    |-> IsoOrNone(r.started_at),
     ended_at      |-> IsoOrNone(r.ended_at),
     duration_ms   |-> DurationMs(r),
     params        |-> [args |-> r.args_serialized, kwargs |-> r.kwargs_serialized],
     error_message |-> r.error_message,
     error_trace   |-> r.error_trace]

\* ------------------------------------------------ the registry (a dict)
\* self._tasks is an insertion-ordered dict: a sequence of records with
\* pairwise distinct ids.
Ids(reg) == {reg[i].id : i \in 1..Len(reg)}

Has(reg, id) == id \in Ids(reg)

\* self._tasks.get(task_id), for an id that is present
Get(reg, id) == reg[CHOOSE i \in 1..Len(reg) : reg[i].id = id]

\* the dict with the record of `id` replaced by r (mutation of the object)
Put(reg, id, r) == [i \in 1..Len(reg) |-> IF reg[i].id = id THEN r ELSE reg[i]]

EvictionKey_AbsentFirst(r) == << r.ended_at, r.started_at, r.queued_at >>

\* the sort key of _enforce_limit_locked
EvictionKey(r) ==
    << IF r.ended_at = None THEN DatetimeMax ELSE r.ended_at,
       IF r.started_at = None THEN DatetimeMax ELSE r.started_at,
       r.queued_at >>

\* tuple comparison k1 < k2
KeyLess(k1, k2) ==
    \/ k1[1] < k2[1]
    \/ k1[1] = k2[1] /\ k1[2] < k2[2]
    \/ k1[1] = k2[1] /\ k1[2] = k2[2] /\ k1[3] < k2[3]

\* sorted(...) is stable: x goes behind every element that is not greater
InsertByKey(acc, x) ==
    LET pos == Cardinality({i \in 1..Len(acc) :
                              ~KeyLess(EvictionKey(x), EvictionKey(acc[i]))})
    IN SubSeq(acc, 1, pos) \o <<x>> \o SubSeq(acc, pos + 1, Len(acc))

SortForEviction_InsertionOrder(reg) == reg

RECURSIVE SortForEviction(_)
SortForEviction(reg) ==
    IF reg = <<>> THEN <<>>
    ELSE InsertByKey(SortForEviction(SubSeq(reg, 1, Len(reg) - 1)), reg[Len(reg)])

InsertByQueuedDesc_Ascending(acc, x) ==
    LET pos == Cardinality({i \in 1..Len(acc) : acc[i].queued_at <= x.queued_at})
    IN SubSeq(acc, 1, pos) \o <<x>> \o SubSeq(acc, pos + 1, Len(acc))

\* tasks.sort(key=queued_at, reverse=True): descending and still stable
InsertByQueuedDesc(acc, x) ==
    LET pos == Cardinality({i \in 1..Len(acc) : acc[i].queued_at >= x.queued_at})
    IN SubSeq(acc, 1, pos) \o <<x>> \o SubSeq(acc, pos + 1, Len(acc))

RECURSIVE SortByQueuedDesc(_)
SortByQueuedDesc(reg) ==
    IF reg = <<>> THEN <<>>
    ELSE InsertByQueuedDesc(SortByQueuedDesc(SubSeq(reg, 1, Len(reg) - 1)),
                            reg[Len(reg)])

\* list_tasks()
ListTasks(reg) ==
    LET sorted == SortByQueuedDesc(reg)
    IN [i \in 1..Len(sorted) |-> ToDict(sorted[i])]

\* --------------------------------------------------------------- state
VARIABLES
    maxTasks,    \* self._max_tasks
    idLimit,     \* how many wrap calls this run explores
    now,         \* the wall clock: the value _now() returned last
    nextId,      \* the next fresh uuid
    tasks,       \* self._tasks
    functions,   \* self._functions: function key -> callable
    runners,     \* runner closures returned by wrap and not yet invoked
    pc,          \* where each thread stands in the call it executes
    loc,         \* the local variables of that call; in a runner, `out` is
                 \* what the wrapped callable did: "returned", "raised" (an
                 \* Exception, with its str()) or "base" (a BaseException)
    broadcast,   \* the snapshot last handed to _send by _broadcast_snapshot
    evicted,     \* ids removed by _enforce_limit_locked so far
    path,        \* per id, the statuses its record took while in the registry
    calls,       \* per id, how often its runner invoked the wrapped callable
    sockets,     \* the websockets the application accepts on /ws/background-tasks
    connections, \* self._connections
    ws,          \* per websocket: where handle_websocket stands, client_state,
                 \* the snapshot line 170 computed, the first message the
                 \* peer received (<<>> or <<message>>)
    sending,     \* per thread, the _send() coroutine its asyncio.run executes:
                 \* its snapshot, its list `connections`, what is left of it
                 \* (todo), the websockets sent to, and `to_remove` (drop)
    heap,        \* the TraceContext objects, by trace_id
    nextSpan,    \* the next fresh span id (_generate_span_id)
    tcall,       \* the finish_span / add_span_log call made last and whether
                 \* it found the span; after a wrapped HTTP request, what the
                 \* original request did and what the wrapper did
    db,          \* the radar_traces, radar_spans and radar_span_relations rows
    waterfall,   \* what get_waterfall_data returned last
    bound,       \* per execution unit, what trace_context.get() returns: the
                 \* trace_id of the TraceContext object bound, or NoStr
    reqId,       \* per execution unit, what request_context.get() returns
    spawnedBy,   \* the request that spawned the child task, NoStr before
    created,     \* the trace contexts create_trace_context has returned
    httpHeld,    \* per unit, the instrumented HTTP call under way and the
                 \* (trace_ctx, span_id) its wrapper holds
    qpc,         \* per unit, whether a cursor execution is under way
    qstart,      \* the keys of QueryCapture._query_start_times
    qspan,       \* per unit, context._radar_span_id of its cursor execution
    queries,     \* the request_id of every CapturedQuery stored
    rd,          \* a list_tasks() call that runs beside the runners: the
                 \* TrackedTask references it copied, the fields to_dict has
                 \* read of the record at hand, the dicts built so far
    coro,        \* per thread, the awaitable its runner's callable returned:
                 \* the event loop it is scheduled on and how far it is
    lock,        \* the thread inside a `with self._lock:` block, or NoStr
    connLock     \* the thread inside `with self._connections_lock:`, or NoStr

\* the live subscription (handle_websocket, _send)
subVars == <<sockets, connections, ws, sending>>

\* the state of the tracing module (src/fastapi_radar/tracing.py)
\* the context variables and what the instrumentation hooks keep
ctxVars == <<bound, reqId, spawnedBy, created, httpHeld, qpc, qstart, qspan, queries>>

\* the two locks, a concurrent reader, the awaitables
syncVars == <<rd, coro, lock, connLock>>

\* what a step inside one of the two locks leaves alone
calmVars == <<heap, nextSpan, tcall, db, waterfall, ctxVars, rd, coro>>

otherVars == <<heap, nextSpan, tcall, db, waterfall, ctxVars, syncVars>>

vars == <<maxTasks, idLimit, now, nextId, tasks, functions, runners, pc, loc,
          broadcast, evicted, path, calls, subVars, otherVars>>

Websockets == {"w1", "w2"}

\* trace ids (uuid4().hex, create_trace_context)
CtxIds == {"c1", "c2"}

\* execution units: two concurrent requests and a task one of them spawns
Requests == {"u1", "u2"}

Child == "u3"

Units == Requests \cup {Child}

RequestIds == {"r1"}

\* no unit has a request id bound
NoRequestIds == [u \in Units |-> NoStr]

\* a wrapper of an HTTP client that is not inside a call
NoHeld == [pc |-> "idle", ctx |-> NoStr, span_id |-> None]

\* TraceContext.__init__
NewTraceContext == [root_span_id |-> None, current_span_id |-> None, spans |-> <<>>]

\* a span id that no create_span has returned
UnknownSpan == 0

OpNames == {"GET /items", "DB SELECT"}

NoCall == <<"none", "none">>

AllIds == 1..(MaxIds + MaxOneIds + MaxCap + Extra)

NoOut == <<"none", "">>

NoLoc == [op |-> "none", id |-> 0, f |-> NoFunc, a |-> <<>>, q |-> None, target |-> 0,
          out |-> NoOut]

\* what an idle thread keeps of a rerun that raised KeyError
KeyErrorLoc == [NoLoc EXCEPT !.op = "KeyError"]

\* a thread that executes no tracker call
Idle(t) == pc[t] = "idle"

\* rerun calls under way that have not drawn their uuid yet
Reserved == Cardinality({u \in Threads : pc[u] \in {"rerun_lock", "rerun_wrap"}})

NoSnapshot == << [id |-> 0] >>

\* the thread that runs the event loop (endpoints, handle_websocket); the
\* other threads are worker threads without a running loop
LoopThread == "t3"

AfterWith_Held(t) == t

\* the holder of a lock when thread t leaves its `with` block: nobody
AfterWith(t) == NoStr

\* where a thread stands before a `with self._lock:` block of wrap, rerun
\* or _finalize
LockPcs == {"wrap_lock", "rerun_lock", "finalize"}

\* the callable returned no awaitable
NoCoro == [loop |-> NoStr, state |-> "none"]

\* no _send() under way
NoSend == [stage |-> "none", snap |-> NoSnapshot, conns |-> {}, todo |-> {},
           sent |-> {}, drop |-> {}]

\* the calls that end with self._broadcast_snapshot()
BroadcastPcs == {"wrap_bcast", "running_bcast", "marked_bcast", "final_bcast",
                 "clear_bcast"}

\* BackgroundTaskTracker.__init__
InitCommon ==
    /\ maxTasks \in 0..MaxCap
    /\ nextId = 1
    /\ tasks = <<>>
    /\ functions = [k \in Keys |-> NoFunc]
    /\ runners = {}
    /\ pc = [t \in Threads |-> "idle"]
    /\ loc = [t \in Threads |-> NoLoc]
    /\ broadcast = NoSnapshot
    /\ evicted = {}
    /\ path = [i \in AllIds |-> <<>>]
    /\ calls = [i \in AllIds |-> 0]
    /\ connections = {}
    /\ ws = [w \in Websockets |->
              [pc |-> "new", state |-> "CONNECTING", snap |-> NoSnapshot, first |-> <<>>]]
    /\ sending = [t \in Threads |-> NoSend]
    /\ heap = [c \in CtxIds |-> NewTraceContext]
    /\ nextSpan = 1
    /\ tcall = NoCall
    /\ db = [traces |-> {}, spans |-> <<>>, relations |-> <<>>]
    /\ waterfall = [trace_id |-> NoStr, rows |-> <<>>]
    /\ bound = [u \in Units |-> NoStr]
    /\ spawnedBy = NoStr
    /\ created = {}
    /\ httpHeld = [u \in Units |-> NoHeld]
    /\ qpc = [u \in Units |-> "idle"]
    /\ qstart = {}
    /\ qspan = [u \in Units |-> None]
    /\ queries = <<>>
    /\ rd = [pc |-> "idle", refs |-> <<>>, got |-> <<>>, out |-> <<>>]
    /\ coro = [t \in Threads |-> NoCoro]
    /\ lock = NoStr
    /\ connLock = NoStr

Init == InitCommon /\ now = 0 /\ idLimit = MaxIds /\ sockets = {} /\ reqId = NoRequestIds

\* ---------------------------------------------------------- the clock
\* the values a call of _now() can return
ClockReads == now..MaxClock

\* -------------------------------------------------- _enforce_limit_locked
EnforceLimit_OffByOne(reg) ==
    IF Len(reg) <= maxTasks + 1
    THEN reg
    ELSE LET sorted == SortForEviction(reg)
             excess == Len(reg) - maxTasks - 1
             gone   == {sorted[i].id : i \in 1..excess}
         IN SelectSeq(reg, LAMBDA r : r.id \notin gone)

\* _enforce_limit_locked, lines 261-274
EnforceLimit(reg) ==
    IF Len(reg) <= maxTasks
    THEN reg
    ELSE LET sorted == SortForEviction(reg)
             excess == Len(reg) - maxTasks
             gone   == {sorted[i].id : i \in 1..excess}
         IN SelectSeq(reg, LAMBDA r : r.id \notin gone)

\* the history of a registry update from reg to kept
PathAfter(kept, p) == [i \in AllIds |-> IF Has(kept, i) THEN p[i] ELSE <<>>]

\* ---------------------------------------------------- _broadcast_snapshot
\* A thread of the application (a sync endpoint, the thread pool that runs a
\* runner, rerun's thread) has no running event loop, so _broadcast_snapshot
\* takes line 299: asyncio.run(_send()) returns when _send() has ended.  In a
\* run that accepts no websocket _send() finds no connection and does
\* nothing: the broadcast is then the single step that computes the snapshot.

\* the snapshot the thread's _broadcast_snapshot computed, line 277
Snapshot(t) == IF sockets = {} THEN ListTasks(tasks) ELSE sending[t].snap

\* asyncio.run(_send()) has returned, line 299
SendDone(t) == sockets = {} \/ sending[t].stage = "done"

\* ----------------------------------------------------------------- wrap
\* wrap, lines 101-116: uuid4(), _now(), the TrackedTask is built
WrapStart(t, f, a) ==
    /\ Idle(t)
    /\ nextId + Reserved <= idLimit
    /\ now' \in ClockReads
    /\ loc' = [loc EXCEPT ![t] = [op |-> "wrap", id |-> nextId, f |-> f, a |-> a,
                                  q |-> now', target |-> 0, out |-> NoOut]]
    /\ nextId' = nextId + 1
    /\ pc' = [pc EXCEPT ![t] = "wrap_lock"]
    /\ UNCHANGED <<subVars, otherVars>>
    /\ UNCHANGED <<maxTasks, idLimit, tasks, functions, runners, broadcast,
                   evicted, path, calls>>

\* wrap, lines 118-121: the record and the callable are registered, the bound enforced
WrapLocked(t) ==
    /\ pc[t] = "wrap_lock"
    /\ LET l       == loc[t]
           withNew == Append(tasks, NewTask(l.id, l.f, l.a, l.q))
           kept    == EnforceLimit(withNew)
       IN /\ tasks' = kept
          /\ evicted' = evicted \cup (Ids(withNew) \ Ids(kept))
          /\ path' = PathAfter(kept, [path EXCEPT ![l.id] = <<"queued">>])
          /\ functions' = [functions EXCEPT ![FunctionKey(l.f)] = l.f]
    /\ pc' = [pc EXCEPT ![t] = "wrap_bcast"]
    /\ lock \in {NoStr, t}
    /\ lock' = AfterWith(t)
    /\ UNCHANGED <<subVars, calmVars, connLock>>
    /\ UNCHANGED <<maxTasks, idLimit, now, nextId, runners, loc, broadcast, calls>>

\* wrap, lines 123-137: the broadcast, then the runner is returned to the
\* caller (rerun hands it to a new thread, lines 163-164)
WrapBroadcast(t) ==
    /\ pc[t] = "wrap_bcast"
    /\ SendDone(t)
    /\ broadcast' = Snapshot(t)
    /\ sending' = [sending EXCEPT ![t] = NoSend]
    /\ runners' = runners \cup {[id |-> loc[t].id, f |-> loc[t].f, a |-> loc[t].a]}
    /\ pc' = [pc EXCEPT ![t] = "idle"]
    /\ loc' = [loc EXCEPT ![t] = NoLoc]
    /\ UNCHANGED <<sockets, connections, ws, otherVars>>
    /\ UNCHANGED <<maxTasks, idLimit, now, nextId, tasks, functions, evicted, path,
                   calls>>

\* --------------------------------------------------------------- runner
\* _mark_running, lines 228-229
MarkRunning(r, ts) == [r EXCEPT !.status = "running", !.started_at = ts]

\* _mark_finished, line 237
MarkFinished(r) == [r EXCEPT !.status = "finished"]

MarkFailed_NoMessage(r, msg) ==
    [r EXCEPT !.status = "failed", !.error_trace = FormatExc(msg)]

\* _mark_failed, lines 241 and 246-248: str(exc) and traceback.format_exc()
MarkFailed(r, msg) ==
    [r EXCEPT !.status = "failed", !.error_message = msg,
              !.error_trace = FormatExc(msg)]

Finalize_MarksFinished(r, ts) == [r EXCEPT !.ended_at = ts, !.status = "finished"]

\* _finalize, line 256
Finalize(r, ts) == [r EXCEPT !.ended_at = ts]

\* runner, line 126: _mark_running.  A runner is invoked once, by the host's
\* scheduler or by the thread rerun starts.
RunnerMarkRunning(t, r) ==
    /\ Idle(t)
    /\ r \in runners
    /\ runners' = runners \ {r}
    /\ loc' = [loc EXCEPT ![t] = [op |-> "run", id |-> r.id, f |-> r.f, a |-> r.a,
                                  q |-> None, target |-> 0, out |-> NoOut]]
    /\ IF Has(tasks, r.id)
       THEN /\ now' \in ClockReads
            /\ tasks' = Put(tasks, r.id, MarkRunning(Get(tasks, r.id), now'))
            /\ path' = [path EXCEPT ![r.id] = Append(@, "running")]
            /\ pc' = [pc EXCEPT ![t] = "running_bcast"]
       ELSE /\ UNCHANGED <<now, tasks, path>>
            /\ pc' = [pc EXCEPT ![t] = "call"]
    /\ lock \in {NoStr, t}
    /\ lock' = AfterWith(t)
    /\ UNCHANGED <<subVars, calmVars, connLock>>
    /\ UNCHANGED <<maxTasks, idLimit, nextId, functions, broadcast, evicted,
                   calls>>

\* _mark_running, line 230
RunningBroadcast(t) ==
    /\ pc[t] = "running_bcast"
    /\ SendDone(t)
    /\ broadcast' = Snapshot(t)
    /\ sending' = [sending EXCEPT ![t] = NoSend]
    /\ pc' = [pc EXCEPT ![t] = "call"]
    /\ UNCHANGED <<sockets, connections, ws, otherVars>>
    /\ UNCHANGED <<maxTasks, idLimit, now, nextId, tasks, functions, runners, loc,
                   evicted, path, calls>>

\* runner, lines 128-131: func(*args, **kwargs) returns, then _mark_finished
RunnerCallReturns(t) ==
    /\ pc[t] = "call"
    /\ calls' = [calls EXCEPT ![loc[t].id] = @ + 1]
    /\ loc' = [loc EXCEPT ![t].out = <<"returned", "">>]
    /\ IF Has(tasks, loc[t].id)
       THEN /\ tasks' = Put(tasks, loc[t].id, MarkFinished(Get(tasks, loc[t].id)))
            /\ path' = [path EXCEPT ![loc[t].id] = Append(@, "finished")]
            /\ pc' = [pc EXCEPT ![t] = "marked_bcast"]
       ELSE /\ UNCHANGED <<tasks, path>>
            /\ pc' = [pc EXCEPT ![t] = "finalize"]
    /\ lock \in {NoStr, t}
    /\ lock' = AfterWith(t)
    /\ UNCHANGED <<subVars, calmVars, connLock>>
    /\ UNCHANGED <<maxTasks, idLimit, now, nextId, functions, runners,
                   broadcast, evicted>>

\* runner, lines 128 and 132-133: func raises an Exception, then _mark_failed
RunnerCallRaises(t, msg) ==
    /\ pc[t] = "call"
    /\ calls' = [calls EXCEPT ![loc[t].id] = @ + 1]
    /\ loc' = [loc EXCEPT ![t].out = <<"raised", msg>>]
    /\ IF Has(tasks, loc[t].id)
       THEN /\ tasks' = Put(tasks, loc[t].id, MarkFailed(Get(tasks, loc[t].id), msg))
            /\ path' = [path EXCEPT ![loc[t].id] = Append(@, "failed")]
            /\ pc' = [pc EXCEPT ![t] = "marked_bcast"]
       ELSE /\ UNCHANGED <<tasks, path>>
            /\ pc' = [pc EXCEPT ![t] = "finalize"]
    /\ lock \in {NoStr, t}
    /\ lock' = AfterWith(t)
    /\ UNCHANGED <<subVars, calmVars, connLock>>
    /\ UNCHANGED <<maxTasks, idLimit, now, nextId, functions, runners,
                   broadcast, evicted>>

\* runner, lines 128 and 134: func raises a BaseException that `except
\* Exception` does not catch; only the finally block runs
RunnerCallRaisesBase(t) ==
    /\ pc[t] = "call"
    /\ calls' = [calls EXCEPT ![loc[t].id] = @ + 1]
    /\ loc' = [loc EXCEPT ![t].out = <<"base", "">>]
    /\ pc' = [pc EXCEPT ![t] = "finalize"]
    /\ UNCHANGED <<subVars, otherVars>>
    /\ UNCHANGED <<maxTasks, idLimit, now, nextId, tasks, functions, runners,
                   broadcast, evicted, path>>

\* _mark_finished line 238, _mark_failed line 249
MarkedBroadcast(t) ==
    /\ pc[t] = "marked_bcast"
    /\ SendDone(t)
    /\ broadcast' = Snapshot(t)
    /\ sending' = [sending EXCEPT ![t] = NoSend]
    /\ pc' = [pc EXCEPT ![t] = "finalize"]
    /\ UNCHANGED <<sockets, connections, ws, otherVars>>
    /\ UNCHANGED <<maxTasks, idLimit, now, nextId, tasks, functions, runners, loc,
                   evicted, path, calls>>

RunnerFinalize_AlwaysBroadcasts(t) ==
    /\ pc[t] = "finalize"
    /\ IF Has(tasks, loc[t].id)
       THEN /\ now' \in ClockReads
            /\ LET ended == Put(tasks, loc[t].id,
                                Finalize(Get(tasks, loc[t].id), now'))
                   kept  == EnforceLimit(ended)
               IN /\ tasks' = kept
                  /\ evicted' = evicted \cup (Ids(ended) \ Ids(kept))
                  /\ path' = PathAfter(kept, path)
       ELSE UNCHANGED <<now, tasks, evicted, path>>
    /\ pc' = [pc EXCEPT ![t] = "final_bcast"]
    /\ loc' = loc
    /\ lock \in {NoStr, t}
    /\ lock' = AfterWith(t)
    /\ UNCHANGED <<subVars, calmVars, connLock>>
    /\ UNCHANGED <<maxTasks, idLimit, nextId, functions, runners, broadcast,
                   calls>>

\* runner, line 135: _finalize, lines 252-257
RunnerFinalize(t) ==
    /\ pc[t] = "finalize"
    /\ IF Has(tasks, loc[t].id)
       THEN /\ now' \in ClockReads
            /\ LET ended == Put(tasks, loc[t].id,
                                Finalize(Get(tasks, loc[t].id), now'))
                   kept  == EnforceLimit(ended)
               IN /\ tasks' = kept
                  /\ evicted' = evicted \cup (Ids(ended) \ Ids(kept))
                  /\ path' = PathAfter(kept, path)
            /\ pc' = [pc EXCEPT ![t] = "final_bcast"]
            /\ loc' = loc
       ELSE /\ UNCHANGED <<now, tasks, evicted, path>>
            /\ pc' = [pc EXCEPT ![t] = "idle"]
            /\ loc' = [loc EXCEPT ![t] = NoLoc]
    /\ lock \in {NoStr, t}
    /\ lock' = AfterWith(t)
    /\ UNCHANGED <<subVars, calmVars, connLock>>
    /\ UNCHANGED <<maxTasks, idLimit, nextId, functions, runners, broadcast,
                   calls>>

\* _finalize, line 258; the runner returns
FinalBroadcast(t) ==
    /\ pc[t] = "final_bcast"
    /\ SendDone(t)
    /\ broadcast' = Snapshot(t)
    /\ sending' = [sending EXCEPT ![t] = NoSend]
    /\ pc' = [pc EXCEPT ![t] = "idle"]
    /\ loc' = [loc EXCEPT ![t] = NoLoc]
    /\ UNCHANGED <<sockets, connections, ws, otherVars>>
    /\ UNCHANGED <<maxTasks, idLimit, now, nextId, tasks, functions, runners,
                   evicted, path, calls>>

\* ---------------------------------------------------------------- clear
ClearLocked_KeepsFunctions(t) ==
    /\ Idle(t)
    /\ tasks' = <<>>
    /\ path' = PathAfter(<<>>, path)
    /\ pc' = [pc EXCEPT ![t] = "clear_bcast"]
    /\ loc' = [loc EXCEPT ![t] = [NoLoc EXCEPT !.op = "clear"]]
    /\ lock \in {NoStr, t}
    /\ lock' = AfterWith(t)
    /\ UNCHANGED <<subVars, calmVars, connLock>>
    /\ UNCHANGED <<maxTasks, idLimit, now, nextId, functions, runners, broadcast,
                   evicted, calls>>

ClearLocked_KeepsTasks(t) ==
    /\ Idle(t)
    /\ functions' = [k \in Keys |-> NoFunc]
    /\ pc' = [pc EXCEPT ![t] = "clear_bcast"]
    /\ loc' = [loc EXCEPT ![t] = [NoLoc EXCEPT !.op = "clear"]]
    /\ lock \in {NoStr, t}
    /\ lock' = AfterWith(t)
    /\ UNCHANGED <<subVars, calmVars, connLock>>
    /\ UNCHANGED <<maxTasks, idLimit, now, nextId, tasks, path, runners, broadcast,
                   evicted, calls>>

\* clear, lines 146-148
ClearLocked(t) ==
    /\ Idle(t)
    /\ tasks' = <<>>
    /\ functions' = [k \in Keys |-> NoFunc]
    /\ path' = PathAfter(<<>>, path)
    /\ pc' = [pc EXCEPT ![t] = "clear_bcast"]
    /\ loc' = [loc EXCEPT ![t] = [NoLoc EXCEPT !.op = "clear"]]
    /\ lock \in {NoStr, t}
    /\ lock' = AfterWith(t)
    /\ UNCHANGED <<subVars, calmVars, connLock>>
    /\ UNCHANGED <<maxTasks, idLimit, now, nextId, runners, broadcast, evicted,
                   calls>>

\* clear, line 149
ClearBroadcast(t) ==
    /\ pc[t] = "clear_bcast"
    /\ SendDone(t)
    /\ broadcast' = Snapshot(t)
    /\ sending' = [sending EXCEPT ![t] = NoSend]
    /\ pc' = [pc EXCEPT ![t] = "idle"]
    /\ loc' = [loc EXCEPT ![t] = NoLoc]
    /\ UNCHANGED <<sockets, connections, ws, otherVars>>
    /\ UNCHANGED <<maxTasks, idLimit, now, nextId, tasks, functions, runners,
                   evicted, path, calls>>

\* ---------------------------------------------------------------- rerun
\* rerun(task_id) is entered; the thread waits for the registry lock
RerunCall(t, id) ==
    /\ Idle(t)
    /\ nextId + Reserved <= idLimit
    /\ pc' = [pc EXCEPT ![t] = "rerun_lock"]
    /\ loc' = [loc EXCEPT ![t] = [NoLoc EXCEPT !.op = "rerun", !.target = id]]
    /\ UNCHANGED <<subVars, otherVars>>
    /\ UNCHANGED <<maxTasks, idLimit, now, nextId, tasks, functions, runners,
                   broadcast, evicted, path, calls>>

RerunLocked_SilentMiss(t) ==
    /\ pc[t] = "rerun_lock"
    /\ IF ~Has(tasks, loc[t].target)
       THEN /\ pc' = [pc EXCEPT ![t] = "idle"]
            /\ loc' = [loc EXCEPT ![t] = NoLoc]
       ELSE LET task == Get(tasks, loc[t].target)
                func == functions[task.function_key]
            IN IF func = NoFunc
               THEN /\ pc' = [pc EXCEPT ![t] = "idle"]
                    /\ loc' = [loc EXCEPT ![t] = NoLoc]
               ELSE /\ pc' = [pc EXCEPT ![t] = "rerun_wrap"]
                    /\ loc' = [loc EXCEPT ![t].f = func, ![t].a = task.args]
    /\ lock \in {NoStr, t}
    /\ lock' = AfterWith(t)
    /\ UNCHANGED <<subVars, calmVars, connLock>>
    /\ UNCHANGED <<maxTasks, idLimit, now, nextId, tasks, functions, runners,
                   broadcast, evicted, path, calls>>

\* rerun, lines 152-160.  When the task or its callable is missing KeyError
\* is raised inside the lock block and rerun is left at once: the thread is
\* idle again, with the exception in hand.  Otherwise rerun goes on to line 162.
RerunLocked(t) ==
    /\ pc[t] = "rerun_lock"
    /\ IF ~Has(tasks, loc[t].target)
       THEN /\ pc' = [pc EXCEPT ![t] = "idle"]
            /\ loc' = [loc EXCEPT ![t] = KeyErrorLoc]
       ELSE LET task == Get(tasks, loc[t].target)
                func == functions[task.function_key]
            IN IF func = NoFunc
               THEN /\ pc' = [pc EXCEPT ![t] = "idle"]
                    /\ loc' = [loc EXCEPT ![t] = KeyErrorLoc]
               ELSE /\ pc' = [pc EXCEPT ![t] = "rerun_wrap"]
                    /\ loc' = [loc EXCEPT ![t].f = func, ![t].a = task.args]
    /\ lock \in {NoStr, t}
    /\ lock' = AfterWith(t)
    /\ UNCHANGED <<subVars, calmVars, connLock>>
    /\ UNCHANGED <<maxTasks, idLimit, now, nextId, tasks, functions, runners,
                   broadcast, evicted, path, calls>>

\* rerun, line 162: self.wrap(func, *args, **kwargs) starts (lines 101-116)
RerunWrapStart(t) ==
    /\ pc[t] = "rerun_wrap"
    /\ now' \in ClockReads
    /\ loc' = [loc EXCEPT ![t].id = nextId, ![t].q = now']
    /\ nextId' = nextId + 1
    /\ pc' = [pc EXCEPT ![t] = "wrap_lock"]
    /\ UNCHANGED <<subVars, otherVars>>
    /\ UNCHANGED <<maxTasks, idLimit, tasks, functions, runners, broadcast,
                   evicted, path, calls>>

\* ------------------------------------------------ the live subscription
trackerVars == <<maxTasks, idLimit, now, nextId, tasks, functions, runners, pc, loc,
                 broadcast, evicted, path, calls>>

\* the peer of websocket w receives msg
Deliver(w, msg) ==
    [ws EXCEPT ![w].first = IF Len(@) = 0 THEN <<msg>> ELSE @]

SendOutcome_NoCatch(state, ok) ==
    IF state # "CONNECTED" THEN "drop" ELSE IF ok THEN "sent" ELSE "raise"

\* _send, lines 284-290, for one websocket: what becomes of it when its
\* client_state is `state` and send_json succeeds (ok) or raises an Exception
SendOutcome(state, ok) ==
    IF state # "CONNECTED" THEN "drop" ELSE IF ok THEN "sent" ELSE "drop"

\* _broadcast_snapshot, lines 277 and 296-299: the snapshot is computed, then
\* asyncio.run starts _send()
BroadcastSnapshot(t) ==
    /\ pc[t] \in BroadcastPcs
    /\ sockets # {}
    /\ sending[t].stage = "none"
    /\ sending' = [sending EXCEPT ![t] = [NoSend EXCEPT !.stage = "start",
                                                        !.snap = ListTasks(tasks)]]
    /\ lock \in {NoStr, t}
    /\ lock' = AfterWith(t)
    /\ UNCHANGED <<trackerVars, sockets, connections, ws, calmVars, connLock>>

\* _send, lines 280-282
SendRead(t) ==
    /\ sending[t].stage = "start"
    /\ sending' = [sending EXCEPT ![t].stage = "loop", ![t].conns = connections,
                                  ![t].todo = connections]
    /\ connLock \in {NoStr, t}
    /\ connLock' = AfterWith(t)
    /\ UNCHANGED <<trackerVars, sockets, connections, ws, calmVars, lock>>

\* _send, lines 283-290: one turn of the loop; list(set) fixes no order
SendOne(t, w, ok) ==
    /\ sending[t].stage = "loop"
    /\ w \in sending[t].todo
    /\ LET o == SendOutcome(ws[w].state, ok)
       IN /\ sending' = [sending EXCEPT
                           ![t].todo = @ \ {w},
                           ![t].sent = IF o = "sent" THEN @ \cup {w} ELSE @,
                           ![t].drop = IF o = "drop" THEN @ \cup {w} ELSE @,
                           ![t].stage = IF o = "raise" THEN "raised" ELSE @]
          /\ ws' = IF o = "sent" THEN Deliver(w, sending[t].snap) ELSE ws
    /\ UNCHANGED <<trackerVars, sockets, connections, otherVars>>

\* _send, lines 291-294, and _send() ends
SendPrune(t) ==
    /\ sending[t].stage = "loop"
    /\ sending[t].todo = {}
    /\ connections' = connections \ sending[t].drop
    /\ sending' = [sending EXCEPT ![t].stage = "done"]
    /\ IF sending[t].drop = {}
       THEN UNCHANGED connLock
       ELSE connLock \in {NoStr, t} /\ connLock' = AfterWith(t)
    /\ UNCHANGED <<trackerVars, sockets, ws, calmVars, lock>>

\* handle_websocket, line 167
WsAccept(w) ==
    /\ w \in sockets
    /\ ws[w].pc = "new"
    /\ ws' = [ws EXCEPT ![w].pc = "accepted", ![w].state = "CONNECTED"]
    /\ UNCHANGED <<trackerVars, sockets, connections, sending, otherVars>>

\* handle_websocket, line 168: _add_connection
WsAdd(w) ==
    /\ ws[w].pc = "accepted"
    /\ connections' = connections \cup {w}
    /\ ws' = [ws EXCEPT ![w].pc = "added"]
    /\ connLock \in {NoStr, LoopThread}
    /\ connLock' = AfterWith(LoopThread)
    /\ UNCHANGED <<trackerVars, sockets, sending, calmVars, lock>>

\* handle_websocket, line 170: the argument {"tasks": self.list_tasks()}
WsInitial(w) ==
    /\ ws[w].pc = "added"
    /\ ws' = [ws EXCEPT ![w].pc = "initial", ![w].snap = ListTasks(tasks)]
    /\ lock \in {NoStr, LoopThread}
    /\ lock' = AfterWith(LoopThread)
    /\ UNCHANGED <<trackerVars, sockets, connections, sending, calmVars, connLock>>

\* handle_websocket, line 170: await websocket.send_json(...); when it raises
\* the finally block of line 176 is next
WsInitialSend(w, ok) ==
    /\ ws[w].pc = "initial"
    /\ ws' = IF ok
             THEN [Deliver(w, ws[w].snap) EXCEPT ![w].pc = "open", ![w].snap = NoSnapshot]
             ELSE [ws EXCEPT ![w].pc = "closing", ![w].snap = NoSnapshot]
    /\ UNCHANGED <<trackerVars, sockets, connections, sending, otherVars>>

\* handle_websocket, lines 171-174: the peer goes away, receive_text raises
\* WebSocketDisconnect
WsPeerClose(w) ==
    /\ ws[w].pc = "open"
    /\ ws' = [ws EXCEPT ![w].pc = "closing", ![w].state = "DISCONNECTED"]
    /\ UNCHANGED <<trackerVars, sockets, connections, sending, otherVars>>

\* handle_websocket, line 176: _remove_connection
WsRemove(w) ==
    /\ ws[w].pc = "closing"
    /\ connections' = connections \ {w}
    /\ ws' = [ws EXCEPT ![w].pc = "closed"]
    /\ connLock \in {NoStr, LoopThread}
    /\ connLock' = AfterWith(LoopThread)
    /\ UNCHANGED <<trackerVars, sockets, sending, calmVars, lock>>

\* ------------------------------------------- the two locks, list_tasks
\* the record to_dict builds from what it read of one TrackedTask at three
\* moments: id, function_key, function_name, status (lines 68-71), then
\* queued_at, started_at, ended_at, duration_ms() (lines 72-75), then params,
\* error_message, error_trace (lines 76-81)
ReadMix(head, times, tail) ==
    [tail EXCEPT !.id = head.id, !.function_key = head.function_key,
                 !.function_name = head.function_name, !.status = head.status,
                 !.queued_at = times.queued_at, !.started_at = times.started_at,
                 !.ended_at = times.ended_at]

\* the TrackedTask object to_dict is reading
ReadRef == rd.refs[Len(rd.out) + 1]

\* list_tasks, lines 140-142: the references are copied inside the lock and
\* sorted outside it; queued_at, the sort key, is never reassigned
ReadCopy(t) ==
    /\ rd.pc \in {"idle", "done"}
    /\ lock \in {NoStr, t}
    /\ lock' = AfterWith(t)
    /\ LET sorted == SortByQueuedDesc(tasks)
       IN rd' = [pc   |-> IF sorted = <<>> THEN "done" ELSE "dict",
                 refs |-> [i \in 1..Len(sorted) |-> sorted[i].id],
                 got  |-> <<>>,
                 out  |-> <<>>]
    /\ UNCHANGED <<trackerVars, subVars, heap, nextSpan, tcall, db, waterfall,
                   ctxVars, coro, connLock>>

\* list_tasks, line 143: to_dict, lines 68-71, outside the lock
ReadHead ==
    /\ rd.pc = "dict"
    /\ Len(rd.got) = 0
    /\ rd' = [rd EXCEPT !.got = <<Get(tasks, ReadRef)>>]
    /\ UNCHANGED <<trackerVars, subVars, heap, nextSpan, tcall, db, waterfall,
                   ctxVars, coro, lock, connLock>>

\* to_dict, lines 72-75
ReadTimes ==
    /\ rd.pc = "dict"
    /\ Len(rd.got) = 1
    /\ rd' = [rd EXCEPT !.got = Append(@, Get(tasks, ReadRef))]
    /\ UNCHANGED <<trackerVars, subVars, heap, nextSpan, tcall, db, waterfall,
                   ctxVars, coro, lock, connLock>>

\* to_dict, lines 76-82: the dict of this record is complete
ReadTail ==
    /\ rd.pc = "dict"
    /\ Len(rd.got) = 2
    /\ LET d == ToDict(ReadMix(rd.got[1], rd.got[2], Get(tasks, ReadRef)))
       IN rd' = [rd EXCEPT !.got = <<>>,
                           !.out = Append(@, d),
                           !.pc = IF Len(rd.out) + 1 = Len(rd.refs)
                                  THEN "done" ELSE "dict"]
    /\ UNCHANGED <<trackerVars, subVars, heap, nextSpan, tcall, db, waterfall,
                   ctxVars, coro, lock, connLock>>

\* ------------------------------------------------ entering a lock block
\* A lock block is one step (the lock is taken, the block runs, the lock is
\* released) or two: the thread takes the lock and is then suspended, holding
\* it, before the block runs in a later step.

LockAcquire_InBroadcast(t) ==
    /\ pc[t] \in LockPcs \cup BroadcastPcs
    /\ lock = NoStr
    /\ lock' = t
    /\ UNCHANGED <<trackerVars, subVars, calmVars, connLock>>

\* `with self._lock:` is entered, lines 118, 152, 252
LockAcquire(t) ==
    /\ pc[t] \in LockPcs
    /\ lock = NoStr
    /\ lock' = t
    /\ UNCHANGED <<trackerVars, subVars, calmVars, connLock>>

\* thread t is about to enter `with self._connections_lock:`: _send at line
\* 281, _send at line 292 with websockets to remove, and on the event loop's
\* thread _add_connection / _remove_connection (lines 182, 186)
WantsConnLock(t) ==
    \/ sending[t].stage = "start"
    \/ sending[t].stage = "loop" /\ sending[t].todo = {} /\ sending[t].drop # {}
    \/ t = LoopThread /\ \E w \in sockets : ws[w].pc \in {"accepted", "closing"}

\* `with self._connections_lock:` is entered
ConnAcquire(t) ==
    /\ WantsConnLock(t)
    /\ connLock = NoStr
    /\ connLock' = t
    /\ UNCHANGED <<trackerVars, subVars, calmVars, lock>>

\* ------------------------------------------------- _await_async_callable
\* the event loop `l` is executing callbacks: the main loop when its thread
\* is not inside a synchronous call, the loop asyncio.run made when its
\* thread is inside that asyncio.run
LoopTurns(l) ==
    IF l = "main" THEN pc[LoopThread] = "idle" ELSE pc[l] = "asyncio_run"

\* runner, lines 128-129: func(*args, **kwargs) returns an awaitable
RunnerCallAwaitable(t) ==
    /\ pc[t] = "call"
    /\ calls' = [calls EXCEPT ![loc[t].id] = @ + 1]
    /\ coro' = [coro EXCEPT ![t] = [loop |-> NoStr, state |-> "new"]]
    /\ pc' = [pc EXCEPT ![t] = "await"]
    /\ UNCHANGED <<maxTasks, idLimit, now, nextId, tasks, functions, runners, loc,
                   broadcast, evicted, path, subVars, heap, nextSpan, tcall, db,
                   waterfall, ctxVars, rd, lock, connLock>>

\* _await_async_callable, lines 214-220: without a running loop in this
\* thread asyncio.run makes a loop and runs the awaitable on it; on the
\* loop's thread the awaitable is scheduled on the running loop and the
\* thread goes on to future.result()
AwaitStart(t) ==
    /\ pc[t] = "await"
    /\ IF t = LoopThread
       THEN /\ coro' = [coro EXCEPT ![t] = [loop |-> "main", state |-> "scheduled"]]
            /\ pc' = [pc EXCEPT ![t] = "future_result"]
       ELSE /\ coro' = [coro EXCEPT ![t] = [loop |-> t, state |-> "scheduled"]]
            /\ pc' = [pc EXCEPT ![t] = "asyncio_run"]
    /\ UNCHANGED <<maxTasks, idLimit, now, nextId, tasks, functions, runners, loc,
                   broadcast, evicted, path, calls, subVars, heap, nextSpan, tcall,
                   db, waterfall, ctxVars, rd, lock, connLock>>

\* the loop the awaitable is scheduled on runs it to its end
CoroutineRuns(t) ==
    /\ coro[t].state = "scheduled"
    /\ LoopTurns(coro[t].loop)
    /\ coro' = [coro EXCEPT ![t].state = "done"]
    /\ UNCHANGED <<trackerVars, subVars, heap, nextSpan, tcall, db, waterfall,
                   ctxVars, rd, lock, connLock>>

\* _await_async_callable, lines 217-218 and 221: asyncio.run or
\* future.result() returns once the awaitable is done; runner, line 130:
\* _mark_finished
AwaitReturns(t) ==
    /\ pc[t] \in {"asyncio_run", "future_result"}
    /\ coro[t].state = "done"
    /\ coro' = [coro EXCEPT ![t] = NoCoro]
    /\ loc' = [loc EXCEPT ![t].out = <<"returned", "">>]
    /\ lock \in {NoStr, t}
    /\ lock' = AfterWith(t)
    /\ IF Has(tasks, loc[t].id)
       THEN /\ tasks' = Put(tasks, loc[t].id, MarkFinished(Get(tasks, loc[t].id)))
            /\ path' = [path EXCEPT ![loc[t].id] = Append(@, "finished")]
            /\ pc' = [pc EXCEPT ![t] = "marked_bcast"]
       ELSE /\ UNCHANGED <<tasks, path>>
            /\ pc' = [pc EXCEPT ![t] = "finalize"]
    /\ UNCHANGED <<maxTasks, idLimit, now, nextId, functions, runners, broadcast,
                   evicted, calls, subVars, heap, nextSpan, tcall, db, waterfall,
                   ctxVars, rd, connLock>>

\* ---------------------------------------------------------- TraceContext
SpanIds(tc) == {tc.spans[i].span_id : i \in 1..Len(tc.spans)}

\* self.spans[span_id]
SpanOf(tc, id) == tc.spans[CHOOSE i \in 1..Len(tc.spans) : tc.spans[i].span_id = id]

CreateSpan_IgnoresCurrent(tc, id, op, parent, kind, ts) ==
    [tc EXCEPT !.spans = Append(@, [span_id |-> id,
                                    parent_span_id |-> parent,
                                    operation_name |-> op, span_kind |-> kind,
                                    start_time |-> ts, end_time |-> None,
                                    status |-> "ok", logs |-> 0]),
               !.root_span_id = IF @ = None THEN id ELSE @]

CreateSpan_RootIsLatest(tc, id, op, parent, kind, ts) ==
    [tc EXCEPT !.spans = Append(@, [span_id |-> id,
                                    parent_span_id |-> IF parent # None THEN parent
                                                       ELSE tc.current_span_id,
                                    operation_name |-> op, span_kind |-> kind,
                                    start_time |-> ts, end_time |-> None,
                                    status |-> "ok", logs |-> 0]),
               !.root_span_id = id]

CreateSpan_SelfParent(tc, id, op, parent, kind, ts) ==
    [tc EXCEPT !.spans = Append(@, [span_id |-> id,
                                    parent_span_id |-> IF parent # None THEN parent
                                                       ELSE IF tc.current_span_id # None
                                                            THEN tc.current_span_id
                                                            ELSE id,
                                    operation_name |-> op, span_kind |-> kind,
                                    start_time |-> ts, end_time |-> None,
                                    status |-> "ok", logs |-> 0]),
               !.root_span_id = IF @ = None THEN id ELSE @]

\* create_span, lines 41-62; a span without the key "end_time" has end_time None
CreateSpan(tc, id, op, parent, kind, ts) ==
    [tc EXCEPT !.spans = Append(@, [span_id |-> id,
                                    parent_span_id |-> IF parent # None THEN parent
                                                       ELSE tc.current_span_id,
                                    operation_name |-> op, span_kind |-> kind,
                                    start_time |-> ts, end_time |-> None,
                                    status |-> "ok", logs |-> 0]),
               !.root_span_id = IF @ = None THEN id ELSE @]

FinishSpan_Upsert(tc, id, status, ts) ==
    IF id \in SpanIds(tc)
    THEN [tc EXCEPT !.spans = [i \in 1..Len(@) |->
                                 IF @[i].span_id = id
                                 THEN [@[i] EXCEPT !.end_time = ts, !.status = status]
                                 ELSE @[i]]]
    ELSE [tc EXCEPT !.spans = Append(@, [span_id |-> id, parent_span_id |-> None,
                                         operation_name |-> "unknown",
                                         span_kind |-> "server", start_time |-> ts,
                                         end_time |-> ts, status |-> status,
                                         logs |-> 0])]

FinishSpan_PopsCurrent(tc, id, status, ts) ==
    IF id \notin SpanIds(tc)
    THEN tc
    ELSE [tc EXCEPT !.spans = [i \in 1..Len(@) |->
                                 IF @[i].span_id = id
                                 THEN [@[i] EXCEPT !.end_time = ts, !.status = status]
                                 ELSE @[i]],
                    !.current_span_id = IF @ = id THEN SpanOf(tc, id).parent_span_id
                                        ELSE @]

\* finish_span, lines 68-76 (duration_ms is end_time - start_time)
FinishSpan(tc, id, status, ts) ==
    IF id \notin SpanIds(tc)
    THEN tc
    ELSE [tc EXCEPT !.spans = [i \in 1..Len(@) |->
                                 IF @[i].span_id = id
                                 THEN [@[i] EXCEPT !.end_time = ts, !.status = status]
                                 ELSE @[i]]]

\* add_span_log, lines 83-93
AddSpanLog(tc, id) ==
    IF id \notin SpanIds(tc)
    THEN tc
    ELSE [tc EXCEPT !.spans = [i \in 1..Len(@) |->
                                 IF @[i].span_id = id
                                 THEN [@[i] EXCEPT !.logs = @ + 1]
                                 ELSE @[i]]]

\* set_current_span, line 97
SetCurrentSpan(tc, id) == [tc EXCEPT !.current_span_id = id]

\* get_trace_summary, lines 104-111: all_times
AllTimes(tc) ==
    {tc.spans[i].start_time : i \in 1..Len(tc.spans)}
      \cup {tc.spans[i].end_time : i \in {j \in 1..Len(tc.spans) :
                                              tc.spans[j].end_time # None}}

Min(S) == CHOOSE x \in S : \A y \in S : x <= y

Max(S) == CHOOSE x \in S : \A y \in S : x >= y

\* get_trace_summary, lines 112-113: error_count
ErrorCount(tc) ==
    Cardinality({i \in 1..Len(tc.spans) : tc.spans[i].status = "error"})

NoSummary == [empty |-> TRUE]

GetTraceSummary_CountsFinished(tc, c) ==
    IF tc.spans = <<>>
    THEN NoSummary
    ELSE [empty |-> FALSE,
          trace_id |-> c,
          operation_name |-> IF tc.root_span_id \in SpanIds(tc)
                             THEN SpanOf(tc, tc.root_span_id).operation_name
                             ELSE "unknown",
          start_time |-> Min(AllTimes(tc)),
          end_time |-> Max(AllTimes(tc)),
          duration_ms |-> Max(AllTimes(tc)) - Min(AllTimes(tc)),
          span_count |-> Cardinality({i \in 1..Len(tc.spans) :
                                         tc.spans[i].end_time # None}),
          status |-> IF ErrorCount(tc) > 0 THEN "error" ELSE "ok"]

\* get_trace_summary, lines 101-130, of the context with trace_id c
GetTraceSummary(tc, c) ==
    IF tc.spans = <<>>
    THEN NoSummary
    ELSE [empty |-> FALSE,
          trace_id |-> c,
          operation_name |-> IF tc.root_span_id \in SpanIds(tc)
                             THEN SpanOf(tc, tc.root_span_id).operation_name
                             ELSE "unknown",
          start_time |-> Min(AllTimes(tc)),
          end_time |-> Max(AllTimes(tc)),
          duration_ms |-> Max(AllTimes(tc)) - Min(AllTimes(tc)),
          span_count |-> Len(tc.spans),
          status |-> IF ErrorCount(tc) > 0 THEN "error" ELSE "ok"]

\* -------------------------------------------------------- TracingManager
RECURSIVE CalculateDepth(_, _, _), CalculateDepthFrom(_, _, _, _)

\* calculate_depth, lines 174-177: the loop over spans.items() from item i on
CalculateDepthFrom(span_id, spans, depth, i) ==
    IF i > Len(spans)
    THEN <<>>
    ELSE (IF spans[i].parent_span_id = span_id
          THEN << <<span_id, spans[i].span_id, depth + 1>> >>
                 \o CalculateDepth(spans[i].span_id, spans, depth + 1)
          ELSE <<>>)
         \o CalculateDepthFrom(span_id, spans, depth, i + 1)

\* calculate_depth, lines 164-179
CalculateDepth(span_id, spans, depth) ==
    IF \A i \in 1..Len(spans) : spans[i].span_id # span_id
    THEN <<>>
    ELSE CalculateDepthFrom(span_id, spans, depth, 1)

SaveSpanRelations_DepthFromZero(tc, c) ==
    IF tc.root_span_id = None
    THEN <<>>
    ELSE LET relations == CalculateDepth(tc.root_span_id, tc.spans, 0 - 1)
         IN [i \in 1..Len(relations) |->
               [trace_id |-> c, parent_span_id |-> relations[i][1],
                child_span_id |-> relations[i][2], depth |-> relations[i][3]]]

\* _save_span_relations, lines 182-192: the SpanRelation rows
SaveSpanRelations(tc, c) ==
    IF tc.root_span_id = None
    THEN <<>>
    ELSE LET relations == CalculateDepth(tc.root_span_id, tc.spans, 0)
         IN [i \in 1..Len(relations) |->
               [trace_id |-> c, parent_span_id |-> relations[i][1],
                child_span_id |-> relations[i][2], depth |-> relations[i][3]]]

\* save_trace_context, lines 153-155: the Span rows
SpanRows(tc, c) ==
    [i \in 1..Len(tc.spans) |->
       [trace_id |-> c, span_id |-> tc.spans[i].span_id,
        parent_span_id |-> tc.spans[i].parent_span_id,
        operation_name |-> tc.spans[i].operation_name,
        start_time |-> tc.spans[i].start_time, end_time |-> tc.spans[i].end_time,
        status |-> tc.spans[i].status]]

\* the radar_spans rows of a trace (WHERE s.trace_id = :trace_id)
TraceSpans(d, c) == {i \in 1..Len(d.spans) : d.spans[i].trace_id = c}

OffsetMs_FromMax(d, c, i) ==
    d.spans[i].start_time - Max({d.spans[j].start_time : j \in TraceSpans(d, c)})

\* lines 218-221: s.start_time - MIN(s.start_time) OVER (PARTITION BY s.trace_id),
\* in milliseconds
OffsetMs(d, c, i) ==
    d.spans[i].start_time - Min({d.spans[j].start_time : j \in TraceSpans(d, c)})

\* lines 246-258: the dict built from a row of the query
WaterfallRow(d, c, i, depth) ==
    [span_id |-> d.spans[i].span_id,
     parent_span_id |-> d.spans[i].parent_span_id,
     operation_name |-> d.spans[i].operation_name,
     start_time |-> IsoOrNone(d.spans[i].start_time),
     end_time |-> IsoOrNone(d.spans[i].end_time),
     status |-> d.spans[i].status,
     depth |-> depth,
     offset_ms |-> OffsetMs(d, c, i)]

SpanTimeline_InnerJoin(d, c) ==
    {WaterfallRow(d, c, p[1], d.relations[p[2]].depth) :
        p \in {q \in TraceSpans(d, c) \X (1..Len(d.relations)) :
                 d.relations[q[2]].child_span_id = d.spans[q[1]].span_id}}

\* lines 205-225: the rows of span_timeline; the LEFT JOIN pairs a span with
\* every relation row whose child it is, COALESCE gives depth 0 to a span
\* with none
SpanTimeline(d, c) ==
    {WaterfallRow(d, c, p[1], d.relations[p[2]].depth) :
        p \in {q \in TraceSpans(d, c) \X (1..Len(d.relations)) :
                 d.relations[q[2]].child_span_id = d.spans[q[1]].span_id}}
    \cup
    {WaterfallRow(d, c, i, 0) :
        i \in {j \in TraceSpans(d, c) :
                 \A k \in 1..Len(d.relations) :
                     d.relations[k].child_span_id # d.spans[j].span_id}}

\* ORDER BY offset_ms, depth
RowLeq(a, b) ==
    \/ a.offset_ms < b.offset_ms
    \/ a.offset_ms = b.offset_ms /\ a.depth <= b.depth

\* lines 226-227 and 244-261: every order the query may return the rows in
\* (rows equal in offset_ms and depth come in any order)
WaterfallResults(d, c) ==
    LET R == SpanTimeline(d, c)
        n == Cardinality(R)
    IN {q \in [1..n -> R] :
          /\ \A i, j \in 1..n : i < j => q[i] # q[j]
          /\ \A i, j \in 1..n : i < j => RowLeq(q[i], q[j])}

\* ----------------------------------------------- calls on a TraceContext
\* the span ids a caller can hold: those returned so far, or some other value
HeldSpanIds == (1..(nextSpan - 1)) \cup {UnknownSpan}

\* trace_ctx.create_span(operation_name, parent_span_id)
DoCreateSpan(c, op, parent) ==
    /\ parent \in SpanIds(heap[c]) \cup {None, UnknownSpan}
    /\ now' \in ClockReads
    /\ heap' = [heap EXCEPT ![c] = CreateSpan(@, nextSpan, op, parent, "server", now')]
    /\ nextSpan' = nextSpan + 1
    /\ tcall' = NoCall
    /\ UNCHANGED <<maxTasks, idLimit, nextId, tasks, functions, runners, pc, loc,
                   broadcast, evicted, path, calls, subVars, db, waterfall,
                   ctxVars, syncVars>>

\* trace_ctx.finish_span(span_id, status)
DoFinishSpan(c, id, status) ==
    /\ id \in HeldSpanIds
    /\ IF id \in SpanIds(heap[c]) THEN now' \in ClockReads ELSE now' = now
    /\ heap' = [heap EXCEPT ![c] = FinishSpan(@, id, status, now')]
    /\ tcall' = <<"finish_span", IF id \in SpanIds(heap[c]) THEN "found" ELSE "missing">>
    /\ UNCHANGED <<maxTasks, idLimit, nextId, tasks, functions, runners, pc, loc,
                   broadcast, evicted, path, calls, subVars, nextSpan, db, waterfall,
                   ctxVars, syncVars>>

\* trace_ctx.add_span_log(span_id, message); of a log entry the model keeps
\* that it was appended
DoAddSpanLog(c, id) ==
    /\ id \in HeldSpanIds
    /\ id \in SpanIds(heap[c]) => SpanOf(heap[c], id).logs < MaxLogs
    /\ heap' = [heap EXCEPT ![c] = AddSpanLog(@, id)]
    /\ tcall' = <<"add_span_log", IF id \in SpanIds(heap[c]) THEN "found" ELSE "missing">>
    /\ UNCHANGED <<trackerVars, subVars, nextSpan, db, waterfall, ctxVars, syncVars>>

\* trace_ctx.set_current_span(span_id)
DoSetCurrentSpan(c, id) ==
    /\ id \in HeldSpanIds
    /\ heap' = [heap EXCEPT ![c] = SetCurrentSpan(@, id)]
    /\ tcall' = NoCall
    /\ UNCHANGED <<trackerVars, subVars, nextSpan, db, waterfall, ctxVars, syncVars>>

\* save_trace_context, lines 146-159, for a context with spans that has not
\* been saved (trace_id and span_id are primary keys)
SaveTraceContext(c) ==
    /\ c \notin db.traces
    /\ heap[c].spans # <<>>
    /\ db' = [traces |-> db.traces \cup {c},
              spans |-> db.spans \o SpanRows(heap[c], c),
              relations |-> db.relations \o SaveSpanRelations(heap[c], c)]
    /\ tcall' = NoCall
    /\ UNCHANGED <<trackerVars, subVars, heap, nextSpan, waterfall, ctxVars, syncVars>>

\* get_waterfall_data(session_local, trace_id)
GetWaterfallData(c) ==
    /\ \E q \in WaterfallResults(db, c) : waterfall' = [trace_id |-> c, rows |-> q]
    /\ tcall' = NoCall
    /\ UNCHANGED <<trackerVars, subVars, heap, nextSpan, db, ctxVars, syncVars>>

\* ------------------------------------- context variables and the hooks

\* a unit that runs: the requests, and the child task once it is spawned; a
\* unit is inside one call at a time
Started(u) == u \in Requests \/ spawnedBy # NoStr

\* set_trace_context(create_trace_context()): the unit binds a trace context
\* of its own
SetTraceContext(u, c) ==
    /\ Started(u)
    /\ c \notin created
    /\ created' = created \cup {c}
    /\ bound' = [bound EXCEPT ![u] = c]
    /\ UNCHANGED <<trackerVars, subVars, heap, nextSpan, tcall, db, waterfall,
                   reqId, spawnedBy, httpHeld, qpc, qstart, qspan, queries, syncVars>>

\* a request spawns the child task: the task runs in a copy of the request's
\* context, where every context variable has the value it has in the request
SpawnChild(p) ==
    /\ spawnedBy = NoStr
    /\ spawnedBy' = p
    /\ bound' = [bound EXCEPT ![Child] = bound[p]]
    /\ reqId' = [reqId EXCEPT ![Child] = reqId[p]]
    /\ UNCHANGED <<trackerVars, subVars, heap, nextSpan, tcall, db, waterfall,
                   created, httpHeld, qpc, qstart, qspan, queries, syncVars>>

CreateHttpSpan_Unguarded(h, c, id, ts) ==
    LET tc == IF c = NoStr THEN "c1" ELSE c
    IN [h EXCEPT ![tc] = CreateSpan(@, id, "HTTP GET", None, "client", ts)]

\* _create_http_span, lines 287-307, on the trace contexts h when
\* get_current_trace_context() gives c
CreateHttpSpan(h, c, id, ts) ==
    IF c = NoStr
    THEN h
    ELSE [h EXCEPT ![c] = CreateSpan(@, id, "HTTP GET", None, "client", ts)]

\* the wrapper of an HTTP client calls _create_http_span and then the
\* original request
HttpCreate(u) ==
    /\ Started(u)
    /\ httpHeld[u].pc = "idle" /\ qpc[u] = "idle"
    /\ now' \in (IF bound[u] = NoStr THEN {now} ELSE ClockReads)
    /\ heap' = CreateHttpSpan(heap, bound[u], nextSpan, now')
    /\ nextSpan' = IF bound[u] = NoStr THEN nextSpan ELSE nextSpan + 1
    /\ httpHeld' = [httpHeld EXCEPT ![u] =
                      [pc |-> "http", ctx |-> bound[u],
                       span_id |-> IF bound[u] = NoStr THEN None ELSE nextSpan]]
    /\ tcall' = NoCall
    /\ UNCHANGED <<maxTasks, idLimit, nextId, tasks, functions, runners, pc, loc,
                   broadcast, evicted, path, calls, subVars, db, waterfall,
                   bound, reqId, spawnedBy, created, qpc, qstart, qspan, queries,
                   syncVars>>

\* _finish_http_span, lines 340-366, on the trace contexts h
FinishHttpSpan(h, c, id, error, ts) ==
    IF c = NoStr \/ id = None
    THEN h
    ELSE [h EXCEPT ![c] = IF error
                          THEN FinishSpan(AddSpanLog(@, id), id, "error", ts)
                          ELSE FinishSpan(@, id, "ok", ts)]

\* what the original request of an instrumented client does: it returns a
\* response, raises an Exception, or raises a BaseException that is no
\* Exception (asyncio.CancelledError, KeyboardInterrupt)
HttpOutcomes == {"response", "Exception", "BaseException"}

WrapperOutcome_Swallows(orig) == "response"

\* wrapped_request, lines 382-389: `return response`, the bare `raise` of
\* `except Exception`, or the exception no handler catches
WrapperOutcome(orig) == orig

\* the original request ended, and the wrapper calls _finish_http_span with
\* what _create_http_span gave it (lines 384 and 387) unless no handler
\* catches what was raised; tcall keeps what the original did and what the
\* wrapper did
HttpFinish(u, orig) ==
    /\ httpHeld[u].pc = "http"
    /\ now' \in (IF httpHeld[u].ctx = NoStr \/ orig = "BaseException"
                 THEN {now} ELSE ClockReads)
    /\ heap' = IF orig = "BaseException"
               THEN heap
               ELSE FinishHttpSpan(heap, httpHeld[u].ctx, httpHeld[u].span_id,
                                   orig = "Exception", now')
    /\ httpHeld' = [httpHeld EXCEPT ![u] = NoHeld]
    /\ tcall' = <<orig, WrapperOutcome(orig)>>
    /\ UNCHANGED <<maxTasks, idLimit, nextId, tasks, functions, runners, pc, loc,
                   broadcast, evicted, path, calls, subVars, nextSpan, db, waterfall,
                   bound, reqId, spawnedBy, created, qpc, qstart, qspan, queries,
                   syncVars>>

\* QueryCapture._before_cursor_execute, for the execution context of unit u
BeforeCursorExecute(u) ==
    /\ Started(u)
    /\ qpc[u] = "idle" /\ httpHeld[u].pc = "idle"
    /\ qpc' = [qpc EXCEPT ![u] = "executing"]
    /\ IF reqId[u] = NoStr
       THEN UNCHANGED <<now, heap, nextSpan, qstart, qspan>>
       ELSE /\ qstart' = qstart \cup {u}
            /\ IF bound[u] = NoStr
               THEN UNCHANGED <<now, heap, nextSpan, qspan>>
               ELSE /\ now' \in ClockReads
                    /\ heap' = [heap EXCEPT ![bound[u]] =
                                  CreateSpan(@, nextSpan, "DB SELECT", None, "client", now')]
                    /\ nextSpan' = nextSpan + 1
                    /\ qspan' = [qspan EXCEPT ![u] = nextSpan]
    /\ tcall' = NoCall
    /\ UNCHANGED <<maxTasks, idLimit, nextId, tasks, functions, runners, pc, loc,
                   broadcast, evicted, path, calls, subVars, db, waterfall,
                   bound, reqId, spawnedBy, created, httpHeld, queries, syncVars>>

StoreQuery_KeepsRadar(qs, rid, radar, stored) ==
    IF stored THEN Append(qs, rid) ELSE qs

\* _after_cursor_execute, lines 108-132: the stored captured queries after a
\* statement; a statement that holds "radar_" is skipped, and an Exception of
\* the storage session is passed over
StoreQuery(qs, rid, radar, stored) ==
    IF radar \/ ~stored THEN qs ELSE Append(qs, rid)

\* QueryCapture._after_cursor_execute; slow: the duration reached
\* slow_query_threshold, radar: the statement holds "radar_", stored: the
\* session committed the CapturedQuery; the execution context ends with it.
\* When the hook got past its early returns tcall keeps what the statement
\* was and what the storage session did
AfterCursorExecute(u, slow, radar, stored) ==
    /\ qpc[u] = "executing"
    /\ qpc' = [qpc EXCEPT ![u] = "idle"]
    /\ qspan' = [qspan EXCEPT ![u] = None]
    /\ IF reqId[u] = NoStr
       THEN UNCHANGED <<now, heap, qstart, queries>>
       ELSE /\ qstart' = qstart \ {u}
            /\ IF u \notin qstart
               THEN UNCHANGED <<now, heap, queries>>
               ELSE /\ IF bound[u] # NoStr /\ qspan[u] # None
                       THEN /\ now' \in (IF qspan[u] \in SpanIds(heap[bound[u]])
                                         THEN ClockReads ELSE {now})
                            /\ heap' = [heap EXCEPT ![bound[u]] =
                                          FinishSpan(@, qspan[u],
                                                     IF slow THEN "slow" ELSE "ok", now')]
                       ELSE UNCHANGED <<now, heap>>
                    /\ queries' = StoreQuery(queries, reqId[u], radar, stored)
    /\ tcall' = IF reqId[u] = NoStr \/ u \notin qstart
                THEN NoCall
                ELSE <<IF radar THEN "radar_" ELSE "statement",
                       IF stored THEN "committed" ELSE "Exception">>
    /\ UNCHANGED <<maxTasks, idLimit, nextId, tasks, functions, runners, pc, loc,
                   broadcast, evicted, path, calls, subVars, nextSpan, db, waterfall,
                   bound, reqId, spawnedBy, created, httpHeld, syncVars>>

\* ------------------------------------------------------- specifications
Step(t) ==
    \/ \E c \in Calls : WrapStart(t, c[1], c[2])
    \/ WrapLocked(t)
    \/ WrapBroadcast(t)
    \/ \E r \in runners : RunnerMarkRunning(t, r)
    \/ RunningBroadcast(t)
    \/ RunnerCallReturns(t)
    \/ \E msg \in ExcMessages : RunnerCallRaises(t, msg)
    \/ RunnerCallRaisesBase(t)
    \/ MarkedBroadcast(t)
    \/ RunnerFinalize(t)
    \/ FinalBroadcast(t)
    \/ ClearLocked(t)
    \/ ClearBroadcast(t)
    \/ \E id \in 1..idLimit : RerunCall(t, id)
    \/ RerunLocked(t)
    \/ RerunWrapStart(t)

Next == \E t \in Workers : Step(t)

\* two threads, any interleaving of their calls
Spec == Init /\ [][Next]_vars

\* one thread, any order of calls, more tasks
InitOne ==
    InitCommon /\ now = 0 /\ idLimit = MaxOneIds /\ sockets = {} /\ reqId = NoRequestIds

NextOne == Step("t1")

SpecOne == InitOne /\ [][NextOne]_vars

\* one thread that wraps max_tasks + Extra tasks one after another, running
\* each runner to its end before the next wrap
InitSeq ==
    /\ InitCommon /\ now = 0 /\ idLimit = maxTasks + Extra /\ sockets = {}
    /\ reqId = NoRequestIds

NextSeq ==
    \/ \E c \in Calls : runners = {} /\ WrapStart("t1", c[1], c[2])
    \/ WrapLocked("t1")
    \/ WrapBroadcast("t1")
    \/ \E r \in runners : RunnerMarkRunning("t1", r)
    \/ RunningBroadcast("t1")
    \/ RunnerCallReturns("t1")
    \/ \E msg \in ExcMessages : RunnerCallRaises("t1", msg)
    \/ RunnerCallRaisesBase("t1")
    \/ MarkedBroadcast("t1")
    \/ RunnerFinalize("t1")
    \/ FinalBroadcast("t1")

SpecSeq == InitSeq /\ [][NextSeq]_vars

\* one thread calling the tracker while the event loop serves the websockets;
\* the clock stands at its last value, so that snapshots differ by what the
\* tracker did and not by when
InitSub ==
    /\ InitCommon
    /\ now = MaxClock
    /\ maxTasks = MaxCap
    /\ idLimit = MaxSubIds
    /\ sockets = Websockets
    /\ reqId = NoRequestIds

NextSub ==
    \/ WrapStart("t1", "g", <<"obj:A">>)
    \/ WrapLocked("t1")
    \/ WrapBroadcast("t1")
    \/ \E r \in runners : RunnerMarkRunning("t1", r)
    \/ RunningBroadcast("t1")
    \/ RunnerCallReturns("t1")
    \/ RunnerCallRaises("t1", "boom")
    \/ MarkedBroadcast("t1")
    \/ RunnerFinalize("t1")
    \/ FinalBroadcast("t1")
    \/ ClearLocked("t1")
    \/ ClearBroadcast("t1")
    \/ BroadcastSnapshot("t1")
    \/ SendRead("t1")
    \/ \E w \in Websockets, ok \in BOOLEAN : SendOne("t1", w, ok)
    \/ SendPrune("t1")
    \/ \E w \in Websockets :
          \/ WsAccept(w)
          \/ WsAdd(w)
          \/ WsInitial(w)
          \/ \E ok \in BOOLEAN : WsInitialSend(w, ok)
          \/ WsPeerClose(w)
          \/ WsRemove(w)

SpecSub == InitSub /\ [][NextSub]_vars

\* a request thread that wraps while two worker threads run the runners
\* (Starlette runs sync background tasks in a thread pool); the clock stands
\* at its last value, so that tasks tie on their timestamps
InitEvict ==
    /\ InitCommon
    /\ now = MaxClock
    /\ maxTasks = MaxCap
    /\ idLimit = MaxCap + 1
    /\ sockets = {}
    /\ reqId = NoRequestIds

NextEvict ==
    \/ WrapStart("t3", "g", <<"obj:A">>)
    \/ WrapLocked("t3")
    \/ WrapBroadcast("t3")
    \/ \E t \in Workers :
          \/ \E r \in runners : RunnerMarkRunning(t, r)
          \/ RunningBroadcast(t)
          \/ RunnerCallReturns(t)
          \/ RunnerCallRaises(t, "boom")
          \/ MarkedBroadcast(t)
          \/ RunnerFinalize(t)
          \/ FinalBroadcast(t)

SpecEvict == InitEvict /\ [][NextEvict]_vars

\* two threads that run the runners of two tasks while the event loop serves
\* one websocket; the clock stands at its last value
InitPair ==
    /\ InitCommon
    /\ now = MaxClock
    /\ maxTasks = MaxCap
    /\ idLimit = MaxCap
    /\ sockets = {"w1"}
    /\ reqId = NoRequestIds

NextPair ==
    \/ WrapStart("t1", "g", <<"obj:A">>)
    \/ WrapLocked("t1")
    \/ WrapBroadcast("t1")
    \/ \E t \in Workers :
          \/ \E r \in runners : RunnerMarkRunning(t, r)
          \/ RunningBroadcast(t)
          \/ RunnerCallReturns(t)
          \/ MarkedBroadcast(t)
          \/ RunnerFinalize(t)
          \/ FinalBroadcast(t)
          \/ BroadcastSnapshot(t)
          \/ SendRead(t)
          \/ SendOne(t, "w1", TRUE)
          \/ SendPrune(t)
    \/ WsAccept("w1")
    \/ WsAdd("w1")
    \/ WsInitial("w1")
    \/ WsInitialSend("w1", TRUE)

SpecPair == InitPair /\ [][NextPair]_vars

\* a thread that wraps and runs tasks while list_tasks() runs on the event
\* loop's thread; max_tasks is large enough that no record leaves the registry
InitRead ==
    /\ InitCommon
    /\ now = MaxClock
    /\ maxTasks = MaxCap
    /\ idLimit = MaxCap
    /\ sockets = {}
    /\ reqId = NoRequestIds

NextRead ==
    \/ WrapStart("t1", "g", <<"obj:A">>)
    \/ WrapLocked("t1")
    \/ WrapBroadcast("t1")
    \/ \E r \in runners : RunnerMarkRunning("t1", r)
    \/ RunningBroadcast("t1")
    \/ RunnerCallReturns("t1")
    \/ RunnerCallRaises("t1", "boom")
    \/ MarkedBroadcast("t1")
    \/ RunnerFinalize("t1")
    \/ FinalBroadcast("t1")
    \/ ReadCopy(LoopThread)
    \/ ReadHead
    \/ ReadTimes
    \/ ReadTail

SpecRead == InitRead /\ [][NextRead]_vars

\* runners invoked on a worker thread and on the event loop's thread, for
\* callables that return a plain result or an awaitable; max_tasks is large
\* enough that no record leaves the registry
InitAwait ==
    /\ InitCommon
    /\ now = MaxClock
    /\ maxTasks = MaxCap
    /\ idLimit = MaxCap
    /\ sockets = {}
    /\ reqId = NoRequestIds

AwaitThreads == {"t1", LoopThread}

AwaitStep(t) ==
    \/ t = "t1" /\ WrapStart(t, "g", <<"obj:A">>)
    \/ WrapLocked(t)
    \/ WrapBroadcast(t)
    \/ \E r \in runners : RunnerMarkRunning(t, r)
    \/ RunningBroadcast(t)
    \/ RunnerCallReturns(t)
    \/ RunnerCallAwaitable(t)
    \/ AwaitStart(t)
    \/ CoroutineRuns(t)
    \/ AwaitReturns(t)
    \/ MarkedBroadcast(t)
    \/ RunnerFinalize(t)
    \/ FinalBroadcast(t)

NextAwait == \E t \in AwaitThreads : AwaitStep(t)

SpecAwait == InitAwait /\ [][NextAwait]_vars

\* every thread that can take a step takes one: the operating system
\* schedules each thread, and a loop that is turning runs what is scheduled
\* on it
FairAwait == SpecAwait /\ \A t \in AwaitThreads : WF_vars(AwaitStep(t))

\* two threads that wrap, run and clear while the event loop serves one
\* websocket, with lock blocks entered in a step of their own; the clock
\* stands at its last value
InitLocks ==
    /\ InitCommon
    /\ now = MaxClock
    /\ maxTasks = MaxCap
    /\ idLimit = MaxSubIds
    /\ sockets = {"w1"}
    /\ reqId = NoRequestIds

NextLocks ==
    \/ WrapStart("t1", "g", <<"obj:A">>)
    \/ WrapLocked("t1")
    \/ WrapBroadcast("t1")
    \/ ClearLocked("t2")
    \/ ClearBroadcast("t2")
    \/ \E t \in Workers :
          \/ \E r \in runners : RunnerMarkRunning(t, r)
          \/ RunningBroadcast(t)
          \/ RunnerCallReturns(t)
          \/ MarkedBroadcast(t)
          \/ RunnerFinalize(t)
          \/ FinalBroadcast(t)
          \/ BroadcastSnapshot(t)
          \/ SendRead(t)
          \/ SendOne(t, "w1", TRUE)
          \/ SendPrune(t)
          \/ LockAcquire(t)
    \/ \E t \in Threads : ConnAcquire(t)
    \/ WsAccept("w1")
    \/ WsAdd("w1")
    \/ WsInitial("w1")
    \/ WsInitialSend("w1", TRUE)
    \/ WsPeerClose("w1")
    \/ WsRemove("w1")

SpecLocks == InitLocks /\ [][NextLocks]_vars

\* any calls on one trace context
InitTrace ==
    /\ InitCommon /\ now = 0 /\ maxTasks = 0 /\ idLimit = 0 /\ sockets = {}
    /\ reqId = NoRequestIds

NextTrace ==
    \/ \E op \in OpNames, parent \in (1..MaxSpans) \cup {None, UnknownSpan} :
          nextSpan <= MaxSpans /\ DoCreateSpan("c1", op, parent)
    \/ \E id \in 0..MaxSpans, status \in {"ok", "error"} : DoFinishSpan("c1", id, status)
    \/ \E id \in 0..MaxSpans : DoAddSpanLog("c1", id)
    \/ \E id \in 0..MaxSpans : DoSetCurrentSpan("c1", id)

SpecTrace == InitTrace /\ [][NextTrace]_vars

\* one trace context that gets its spans, with parents given or taken from
\* the current span
NextTree ==
    \/ \E parent \in (1..MaxRows) \cup {None, UnknownSpan} :
          nextSpan <= MaxRows /\ DoCreateSpan("c1", "GET /items", parent)
    \/ \E id \in 0..MaxRows : DoSetCurrentSpan("c1", id)

SpecTree == InitTrace /\ [][NextTree]_vars

\* two concurrent requests, with or without a request id, that bind trace
\* contexts, spawn a task, call HTTP clients and execute queries
InitCtx ==
    /\ InitCommon /\ now = MaxClock /\ maxTasks = 0 /\ idLimit = 0 /\ sockets = {}
    /\ reqId \in [Units -> RequestIds \cup {NoStr}]
    /\ reqId[Child] = NoStr

NextCtx ==
    \/ \E u \in Units, c \in CtxIds : SetTraceContext(u, c)
    \/ \E p \in Requests : SpawnChild(p)
    \/ \E u \in Units : (bound[u] # NoStr => nextSpan <= MaxHookSpans) /\ HttpCreate(u)
    \/ \E u \in Units : HttpFinish(u, "response")
    \/ \E u \in Units :
          (bound[u] # NoStr /\ reqId[u] # NoStr => nextSpan <= MaxHookSpans)
             /\ BeforeCursorExecute(u)
    \/ \E u \in Units, slow \in BOOLEAN :
          (Len(queries) < MaxQueries \/ reqId[u] = NoStr \/ u \notin qstart)
             /\ AfterCursorExecute(u, slow, FALSE, TRUE)

SpecCtx == InitCtx /\ [][NextCtx]_vars

\* two requests, with or without a request id and a trace context, execute
\* statements: radar's own or not, slow or not, stored or not
InitQuery ==
    /\ InitCommon /\ now = MaxClock /\ maxTasks = 0 /\ idLimit = 0 /\ sockets = {}
    /\ reqId \in [Units -> RequestIds \cup {NoStr}]
    /\ reqId[Child] = NoStr

NextQuery ==
    \/ \E u \in Requests, c \in CtxIds : SetTraceContext(u, c)
    \/ \E u \in Requests :
          (bound[u] # NoStr /\ reqId[u] # NoStr => nextSpan <= MaxHookSpans)
             /\ BeforeCursorExecute(u)
    \/ \E u \in Requests, slow, radar, stored \in BOOLEAN :
          (Len(queries) < MaxStored \/ radar \/ ~stored \/ reqId[u] = NoStr
              \/ u \notin qstart)
             /\ AfterCursorExecute(u, slow, radar, stored)

SpecQuery == InitQuery /\ [][NextQuery]_vars

\* a request and the task it spawns call HTTP clients whose requests
\* return, raise an Exception or raise a BaseException
InitHttp ==
    /\ InitCommon /\ now = 0 /\ maxTasks = 0 /\ idLimit = 0 /\ sockets = {}
    /\ reqId = NoRequestIds

NextHttp ==
    \/ \E u \in Units, c \in CtxIds : SetTraceContext(u, c)
    \/ SpawnChild("u1")
    \/ \E u \in Units : (bound[u] # NoStr => nextSpan <= MaxHookSpans) /\ HttpCreate(u)
    \/ \E u \in Units, orig \in HttpOutcomes : HttpFinish(u, orig)

SpecHttp == InitHttp /\ [][NextHttp]_vars

\* two trace contexts that get their spans, are saved as they stand, and are
\* queried
NextWaterfall ==
    \E c \in CtxIds :
       \/ \E parent \in (1..MaxRows) \cup {None, UnknownSpan} :
             nextSpan <= MaxRows /\ DoCreateSpan(c, "GET /items", parent)
       \/ SaveTraceContext(c)
       \/ GetWaterfallData(c)

SpecWaterfall == InitTrace /\ [][NextWaterfall]_vars

\* ======================================================== the claims
\* a thread's runner returns in this step
RunnerReturns(t) == loc[t].op = "run" /\ pc[t] # "idle" /\ pc'[t] = "idle"

\* every thread is idle and every runner handed out has been run
Quiet == (\A t \in Threads : Idle(t)) /\ runners = {}

\* C1: a record enters the registry as queued, and while it is in the registry
\* its status only moves queued -> running -> finished or queued -> running ->
\* failed: every step leaves it alone or takes one of these moves, so a
\* finished or failed record never changes status again.
C1_Moves == { <<"queued", "running">>, <<"running", "finished">>,
              <<"running", "failed">> }

C1_StatusOrder ==
    [][ /\ \A i \in 1..Len(tasks') :
              ~Has(tasks, tasks'[i].id) => tasks'[i].status = "queued"
        /\ \A i \in 1..Len(tasks) :
              Has(tasks', tasks[i].id) =>
                 \/ Get(tasks', tasks[i].id).status = tasks[i].status
                 \/ <<tasks[i].status, Get(tasks', tasks[i].id).status>> \in C1_Moves
      ]_vars

C1_Witness ==
    /\ Len(tasks) = 2
    /\ {tasks[1].status, tasks[2].status} = {"finished", "failed"}
    /\ \A i \in 1..2 : tasks[i].ended_at # None

\* C2: after one wrap on an empty registry with max_tasks >= 1 and one run of
\* its runner in which the callable returns, when the runner returns exactly
\* one task has gone queued -> running -> finished, list_tasks() has exactly
\* one entry, its status is finished and its duration_ms is defined and >= 0.
C2_SingleSuccess ==
    [][ \A t \in Threads :
          ( /\ RunnerReturns(t)
            /\ loc[t].out[1] = "returned"
            /\ nextId = 2
            /\ maxTasks >= 1 )
          => /\ Len(ListTasks(tasks')) = 1
             /\ ListTasks(tasks')[1].status = "finished"
             /\ ListTasks(tasks')[1].duration_ms # None
             /\ ListTasks(tasks')[1].duration_ms >= 0
             /\ tasks'[1].ended_at >= tasks'[1].started_at
             /\ path' = [i \in AllIds |-> IF i = 1
                                          THEN <<"queued", "running", "finished">>
                                          ELSE <<>>]
      ]_vars

C2_Witness ==
    /\ Quiet
    /\ nextId = 2
    /\ calls[1] = 1
    /\ Len(tasks) = 1
    /\ tasks[1].status = "finished"
    /\ ListTasks(tasks)[1].duration_ms > 0

C4_RegistryBound == Len(tasks) <= maxTasks

C4_Witness ==
    /\ maxTasks >= 1
    /\ Len(tasks) = maxTasks
    /\ evicted # {}
    /\ \E t \in Threads : pc[t] = "final_bcast"

\* C5: with max_tasks = N, after N + Extra tasks have been wrapped and run
\* to completion one after another, the registry holds exactly N records,
\* those of the N tasks that completed last; the Extra tasks that completed
\* first are the evicted ones, and each was, when evicted, a completed record
\* with the earliest ended_at of the registry.
C5_AllDone ==
    /\ Quiet
    /\ nextId = idLimit + 1
    /\ \A i \in 1..idLimit : calls[i] = 1

C5_KeepsMostRecent ==
    [][ /\ C5_AllDone' =>
              /\ Len(tasks') = maxTasks
              /\ Ids(tasks') = (idLimit - maxTasks + 1)..idLimit
              /\ evicted' = 1..Extra
              /\ \A i \in 1..Len(tasks') : tasks'[i].ended_at # None
        /\ \A i \in 1..Len(tasks) :
              ~Has(tasks', tasks[i].id) =>
                 /\ tasks[i].ended_at # None
                 /\ \A j \in 1..Len(tasks) :
                       tasks[j].ended_at # None =>
                          tasks[i].ended_at <= tasks[j].ended_at
      ]_vars

C5_Witness == C5_AllDone /\ maxTasks = MaxCap /\ Len(tasks) = MaxCap

\* C6: whenever the bound is enforced (in wrap after the new record is added,
\* in _finalize after ended_at is set), the records removed are the first
\* (size - max_tasks) in ascending (ended_at, started_at, queued_at) order,
\* an absent ended_at or started_at sorting last, and the others stay as they
\* are; a record without ended_at is removed only if every record with
\* ended_at is removed in the same step.
C6_Rank(ts) == IF ts = None THEN MaxClock + 1 ELSE ts

C6_Before(a, b) ==
    \/ C6_Rank(a.ended_at) < C6_Rank(b.ended_at)
    \/ /\ C6_Rank(a.ended_at) = C6_Rank(b.ended_at)
       /\ C6_Rank(a.started_at) < C6_Rank(b.started_at)
    \/ /\ C6_Rank(a.ended_at) = C6_Rank(b.ended_at)
       /\ C6_Rank(a.started_at) = C6_Rank(b.started_at)
       /\ a.queued_at < b.queued_at

C6_Evicts(pre, post) ==
    LET gone == Ids(pre) \ Ids(post)
    IN /\ Cardinality(gone) = IF Len(pre) > maxTasks THEN Len(pre) - maxTasks ELSE 0
       /\ post = SelectSeq(pre, LAMBDA r : r.id \notin gone)
       /\ \A i, j \in 1..Len(pre) :
             (pre[i].id \in gone /\ pre[j].id \notin gone) => ~C6_Before(pre[j], pre[i])
       /\ (\E i \in 1..Len(pre) : pre[i].id \in gone /\ pre[i].ended_at = None)
             => \A j \in 1..Len(pre) : pre[j].ended_at # None => pre[j].id \in gone

C6_EvictionOrder ==
    [][ \A t \in Threads :
          /\ (pc[t] = "wrap_lock" /\ pc'[t] = "wrap_bcast") =>
                C6_Evicts(Append(tasks, NewTask(loc[t].id, loc[t].f, loc[t].a, loc[t].q)),
                          tasks')
          /\ (pc[t] = "finalize" /\ pc'[t] = "final_bcast") =>
                C6_Evicts(Put(tasks, loc[t].id,
                              [Get(tasks, loc[t].id) EXCEPT !.ended_at = now']),
                          tasks')
      ]_vars

C6_Witness ==
    /\ maxTasks = 2
    /\ \E i \in 1..Len(tasks) :
          /\ tasks[i].ended_at = None
          /\ \E e \in evicted : tasks[i].id < e

\* C7: the lock block of clear() leaves the task map and the callable map
\* empty, so list_tasks() is empty; when clear() returns and no wrap has
\* registered anything meanwhile, the snapshot it broadcasts has an empty task
\* list; and an empty registry stays empty until a wrap registers a record.
C7_NoFunctions == [k \in Keys |-> NoFunc]

C7_ClearEmpties ==
    [][ /\ \A t \in Threads :
              /\ (Idle(t) /\ pc'[t] = "clear_bcast") =>
                    /\ tasks' = <<>>
                    /\ functions' = C7_NoFunctions
                    /\ ListTasks(tasks') = <<>>
              /\ ( /\ pc[t] = "clear_bcast" /\ pc'[t] = "idle"
                   /\ tasks = <<>> /\ functions = C7_NoFunctions ) =>
                    /\ broadcast' = <<>>
                    /\ tasks' = <<>>
                    /\ functions' = C7_NoFunctions
        /\ ( \/ (tasks = <<>> /\ tasks' # <<>>)
             \/ (functions = C7_NoFunctions /\ functions' # C7_NoFunctions) ) =>
              \E u \in Threads : pc[u] = "wrap_lock" /\ pc'[u] = "wrap_bcast"
      ]_vars

C7_Witness ==
    /\ Quiet
    /\ maxTasks >= 1
    /\ nextId > 1
    /\ evicted = {}
    /\ tasks = <<>>
    /\ functions = C7_NoFunctions
    /\ broadcast = <<>>

\* C8 as stated: rerun(t) on a finished task t registers a new record with
\* another id, status queued, a queued_at read anew and the serialized
\* arguments of t, and leaves t's own record as it was.
C8_Original ==
    [][ \A t \in Threads :
          ( /\ pc[t] = "wrap_lock" /\ pc'[t] = "wrap_bcast"
            /\ loc[t].op = "rerun"
            /\ Has(tasks, loc[t].target)
            /\ Get(tasks, loc[t].target).status = "finished"
            /\ Has(tasks', loc[t].id) )
          => LET orig == Get(tasks, loc[t].target)
                 new  == Get(tasks', loc[t].id)
             IN /\ new.id # orig.id
                /\ new.status = "queued"
                /\ new.queued_at = loc[t].q
                /\ new.queued_at >= orig.queued_at
                /\ new.args_serialized = orig.args_serialized
                /\ new.kwargs_serialized = orig.kwargs_serialized
                /\ Has(tasks', orig.id) => Get(tasks', orig.id) = orig
      ]_vars

\* C9: rerun(id) for an id that is not in the registry raises KeyError and
\* changes nothing: no record, no callable, no runner, no fresh id, no
\* broadcast.
C9_RerunMissing ==
    [][ \A t \in Threads :
          ( /\ pc[t] = "rerun_lock"
            /\ ~Has(tasks, loc[t].target)
            /\ pc'[t] # "rerun_lock" )
          => /\ pc'[t] = "idle"
             /\ loc'[t] = KeyErrorLoc
             /\ UNCHANGED <<tasks, functions, runners, nextId, broadcast, evicted,
                            calls, path>>
      ]_vars

C9_Witness ==
    /\ \E t \in Threads : Idle(t) /\ loc[t] = KeyErrorLoc
    /\ evicted # {}
    /\ tasks # <<>>

\* C10: list_tasks() has exactly one entry per record of the registry, none
\* for an evicted or cleared record, ordered by queued_at descending.
C10_ListOrder ==
    LET L == ListTasks(tasks)
    IN /\ Len(L) = Len(tasks)
       /\ {L[i].id : i \in 1..Len(L)} = Ids(tasks)
       /\ \A i \in 1..Len(L) : L[i].id \notin evicted
       /\ \A i \in 1..Len(L) : L[i].queued_at = <<"iso", Get(tasks, L[i].id).queued_at>>
       /\ \A i, j \in 1..Len(L) : i < j => L[i].queued_at[2] >= L[j].queued_at[2]

C10_Witness ==
    /\ Len(tasks) = 2
    /\ tasks[1].queued_at > tasks[2].queued_at
    /\ ListTasks(tasks)[1].id = tasks[1].id

\* C11 as stated: the first message a subscriber receives is the snapshot
\* handle_websocket computed for it on registration, no broadcast reaches it
\* before that one, and no broadcast it receives later is older than it.
C11_Stage(d) ==
    (CASE d.status = "queued" -> 0 [] d.status = "running" -> 2 [] OTHER -> 4)
      + (IF d.ended_at = <<>> THEN 0 ELSE 1)

\* snapshot a shows a task at an earlier point of its life than snapshot b
C11_Older(a, b) ==
    \E i \in 1..Len(a), j \in 1..Len(b) :
        a[i].id = b[j].id /\ C11_Stage(a[i]) < C11_Stage(b[j])

C11_Original ==
    [][ \A w \in Websockets :
          /\ (ws[w].pc = "added" /\ ws'[w].pc = "initial") =>
                ws'[w].snap = ListTasks(tasks)
          /\ (Len(ws[w].first) = 0 /\ Len(ws'[w].first) = 1) =>
                /\ ws[w].pc = "initial"
                /\ ws'[w].first[1] = ws[w].snap
          /\ \A t \in Threads :
                ( /\ w \in sending'[t].sent \ sending[t].sent
                  /\ Len(ws[w].first) = 1 ) =>
                   ~C11_Older(sending[t].snap, ws[w].first[1])
      ]_vars

\* C12: in a broadcast, a websocket that is not CONNECTED or whose send_json
\* raises goes to to_remove and is out of the connection set when _send()
\* ends; every other websocket of the list is sent the snapshot; _send()
\* never raises, its steps leave the registry and the calling thread alone,
\* and the runner ends with the status the callable's outcome gives it.
C12_BroadcastFailure ==
    [][ \A t \in Threads :
          /\ sending'[t].stage # "raised"
          /\ \A w \in sending[t].todo \ sending'[t].todo :
                /\ ws[w].state # "CONNECTED" => w \in sending'[t].drop
                /\ w \in sending'[t].sent \/ w \in sending'[t].drop
                /\ w \in sending'[t].sent => Len(ws'[w].first) = 1
          /\ (sending[t].stage = "loop" /\ sending'[t].stage = "done") =>
                /\ connections' = connections \ sending[t].drop
                /\ sending[t].sent \cup sending[t].drop = sending[t].conns
                /\ sending[t].sent \cap sending[t].drop = {}
          /\ (sending[t].stage # "none" /\ sending'[t].stage # "none") =>
                UNCHANGED <<tasks, functions, runners, pc, loc, nextId>>
          /\ (pc[t] \in BroadcastPcs /\ pc'[t] # pc[t]) =>
                /\ sending[t].stage = "done"
                /\ UNCHANGED tasks
          /\ (RunnerReturns(t) /\ Has(tasks, loc[t].id)) =>
                Get(tasks, loc[t].id).status =
                   (CASE loc[t].out[1] = "returned" -> "finished"
                      [] loc[t].out[1] = "raised" -> "failed"
                      [] OTHER -> "running")
      ]_vars

C12_Witness ==
    /\ pc["t1"] = "final_bcast"
    /\ sending["t1"].stage = "done"
    /\ \E w \in sending["t1"].drop : ws[w].state = "DISCONNECTED"
    /\ \E w \in sending["t1"].sent : w \in connections
    /\ connections \cap sending["t1"].drop = {}

\* C13: whatever calls were made on a trace context, once it has a span its
\* summary's span_count is the number of create_span calls made on it and its
\* status is "error" exactly when some span has status "error" at that time.
C13_SummaryCounts ==
    LET tc == heap["c1"]
        sm == GetTraceSummary(tc, "c1")
    IN Len(tc.spans) >= 1 =>
          /\ sm.empty = FALSE
          /\ sm.span_count = nextSpan - 1
          /\ sm.span_count = Cardinality(SpanIds(tc))
          /\ (sm.status = "error") <=>
                (\E i \in 1..Len(tc.spans) : tc.spans[i].status = "error")
          /\ sm.status \in {"ok", "error"}

C13_Witness ==
    /\ nextSpan - 1 = MaxSpans
    /\ heap["c1"].spans[1].status = "ok"
    /\ heap["c1"].spans[2].status = "error"
    /\ heap["c1"].spans[1].end_time # None
    /\ GetTraceSummary(heap["c1"], "c1").status = "error"

\* C14: root_span_id is None until the first create_span, is then the id that
\* call returned, and no later call changes it; the summary's operation_name
\* is the operation_name of that first span.
C14_RootImmutable ==
    [][ LET tc == heap["c1"]
            tn == heap'["c1"]
        IN /\ (tc.spans = <<>>) => tc.root_span_id = None
           /\ (tc.root_span_id # None) => tn.root_span_id = tc.root_span_id
           /\ (tc.spans = <<>> /\ tn.spans # <<>>) =>
                 /\ tn.root_span_id = nextSpan
                 /\ tn.spans[1].span_id = nextSpan
           /\ (tn.spans # <<>>) =>
                 /\ tn.root_span_id = tn.spans[1].span_id
                 /\ GetTraceSummary(tn, "c1").operation_name = tn.spans[1].operation_name
      ]_vars

C14_Witness ==
    /\ Len(heap["c1"].spans) = MaxSpans
    /\ heap["c1"].root_span_id = 1
    /\ heap["c1"].current_span_id = 2
    /\ heap["c1"].spans[1].operation_name # heap["c1"].spans[2].operation_name
    /\ heap["c1"].spans[1].end_time # None
    /\ heap["c1"].spans[2].logs > 0

\* C15: finish_span and add_span_log with a span id the context does not hold
\* return without raising and leave the trace context as it was.
C15_UnknownSpanNoOp ==
    [][ (tcall' # tcall /\ tcall'[2] = "missing") =>
           /\ tcall'[1] \in {"finish_span", "add_span_log"}
           /\ heap' = heap
           /\ UNCHANGED <<now, nextSpan, db>>
      ]_vars

C15_Witness ==
    /\ tcall = <<"finish_span", "missing">>
    /\ Len(heap["c1"].spans) >= 1
    /\ heap["c1"].spans[1].end_time = None

\* C16 as stated: with at least one span the summary's start_time is the
\* least start_time of the spans, its end_time is the greatest end_time of
\* the spans (unfinished spans or not), and duration_ms is their difference,
\* never negative.
C16_Original ==
    LET tc == heap["c1"]
        sm == GetTraceSummary(tc, "c1")
        ends == {tc.spans[i].end_time : i \in {j \in 1..Len(tc.spans) :
                                                   tc.spans[j].end_time # None}}
    IN Len(tc.spans) >= 1 =>
          /\ sm.start_time = Min({tc.spans[i].start_time : i \in 1..Len(tc.spans)})
          /\ ends # {} => sm.end_time = Max(ends)
          /\ sm.duration_ms = sm.end_time - sm.start_time
          /\ sm.duration_ms >= 0

C16_Witness ==
    /\ Len(heap["c1"].spans) = MaxSpans
    /\ heap["c1"].spans[1].end_time # None
    /\ heap["c1"].spans[2].end_time = None
    /\ heap["c1"].spans[2].start_time > heap["c1"].spans[1].end_time

\* C17: a waterfall query of a persisted trace returns one row per span row
\* of the trace; a row's depth is the depth of the relation row whose child
\* the span is, 0 when there is none; its offset_ms is the span's start_time
\* minus the least start_time of the trace's spans; and the rows ascend by
\* (offset_ms, depth).
C17_WaterfallRows ==
    [][ (waterfall' # waterfall /\ waterfall'.trace_id \in db.traces) =>
          LET c == waterfall'.trace_id
              rows == waterfall'.rows
              S == {i \in 1..Len(db.spans) : db.spans[i].trace_id = c}
              first == CHOOSE m \in {db.spans[i].start_time : i \in S} :
                          \A i \in S : m <= db.spans[i].start_time
          IN /\ db' = db
             /\ Len(rows) = Cardinality(S)
             /\ \A i \in S : \E k \in 1..Len(rows) :
                   /\ rows[k].span_id = db.spans[i].span_id
                   /\ \A l \in 1..Len(rows) : rows[l].span_id = rows[k].span_id => l = k
                   /\ rows[k].offset_ms = db.spans[i].start_time - first
                   /\ \A r \in 1..Len(db.relations) :
                         db.relations[r].child_span_id = rows[k].span_id
                            => rows[k].depth = db.relations[r].depth
                   /\ (\A r \in 1..Len(db.relations) :
                         db.relations[r].child_span_id # rows[k].span_id)
                            => rows[k].depth = 0
             /\ \A k \in 1..(Len(rows) - 1) :
                   \/ rows[k].offset_ms < rows[k + 1].offset_ms
                   \/ /\ rows[k].offset_ms = rows[k + 1].offset_ms
                      /\ rows[k].depth <= rows[k + 1].depth
      ]_vars

C17_Witness ==
    /\ waterfall.trace_id \in db.traces
    /\ Len(waterfall.rows) = MaxRows
    /\ \E k \in 1..MaxRows : waterfall.rows[k].depth = 1
    /\ \E k \in 1..MaxRows : /\ waterfall.rows[k].depth = 0
                             /\ waterfall.rows[k].offset_ms > 0
    /\ \E k \in 1..(MaxRows - 1) :
          /\ waterfall.rows[k].offset_ms = waterfall.rows[k + 1].offset_ms
          /\ waterfall.rows[k].depth < waterfall.rows[k + 1].depth

\* C18: in a waterfall query of a trace saved from a trace context, the row
\* of the root span (the first span the context created) has depth 0 and
\* offset_ms 0, no row has a negative offset_ms, and a trace of one span
\* gives exactly one row, at offset 0 and depth 0.
C18_RootRow ==
    [][ (waterfall' # waterfall /\ waterfall'.trace_id \in db.traces) =>
          LET c == waterfall'.trace_id
              rows == waterfall'.rows
              root == heap[c].spans[1].span_id
          IN /\ heap[c].root_span_id = root
             /\ \E k \in 1..Len(rows) : rows[k].span_id = root
             /\ \A k \in 1..Len(rows) :
                   /\ rows[k].span_id = root =>
                         rows[k].depth = 0 /\ rows[k].offset_ms = 0
                   /\ rows[k].offset_ms >= 0
             /\ Cardinality({i \in 1..Len(db.spans) : db.spans[i].trace_id = c}) = 1 =>
                   /\ Len(rows) = 1
                   /\ rows[1].depth = 0 /\ rows[1].offset_ms = 0
      ]_vars

C18_Witness ==
    /\ waterfall.trace_id \in db.traces
    /\ Len(waterfall.rows) >= 2
    /\ waterfall.rows[1].span_id = heap[waterfall.trace_id].root_span_id
    /\ waterfall.rows[1].depth = 0
    /\ waterfall.rows[1].offset_ms = 0
    /\ waterfall.rows[2].offset_ms > 0
    /\ waterfall.rows[2].depth > 0

C18_WitnessSingle ==
    /\ waterfall.trace_id \in db.traces
    /\ Len(waterfall.rows) = 1
    /\ waterfall.rows[1].depth = 0
    /\ waterfall.rows[1].offset_ms = 0

\* C19: a step of an HTTP wrapper or of a query hook made by a unit with no
\* trace context bound returns and leaves every trace context as it was: no
\* span is created and none is finished; a step of a query hook made by a unit
\* with no request id bound also leaves _query_start_times and the stored
\* captured queries as they were.
C19_NoContextNoOp ==
    [][ \A u \in Units :
          /\ (httpHeld[u].pc = "idle" /\ httpHeld'[u].pc = "http" /\ bound[u] = NoStr) =>
                /\ heap' = heap /\ nextSpan' = nextSpan
                /\ httpHeld'[u].ctx = NoStr /\ httpHeld'[u].span_id = None
          /\ (httpHeld[u].pc = "http" /\ httpHeld'[u].pc = "idle"
                 /\ httpHeld[u].ctx = NoStr) =>
                heap' = heap /\ nextSpan' = nextSpan
          /\ (qpc'[u] # qpc[u] /\ bound[u] = NoStr) =>
                heap' = heap /\ nextSpan' = nextSpan /\ qspan'[u] = None
          /\ (qpc'[u] # qpc[u] /\ reqId[u] = NoStr) =>
                /\ heap' = heap /\ nextSpan' = nextSpan /\ qspan'[u] = None
                /\ qstart' = qstart
                /\ queries' = queries
      ]_vars

C19_Witness ==
    /\ \E u \in Units :
          /\ bound[u] = NoStr
          /\ httpHeld[u].pc = "http"
          /\ httpHeld[u].span_id = None
    /\ \E u \in Units :
          /\ reqId[u] = NoStr
          /\ bound[u] # NoStr
          /\ qpc[u] = "executing"
          /\ u \notin qstart
    /\ \E u \in Units :
          /\ reqId[u] # NoStr
          /\ bound[u] = NoStr
          /\ qpc[u] = "executing"
          /\ u \in qstart
    /\ nextSpan = 1

\* C20 as stated: the child task starts with the trace context its parent has
\* bound when it spawns it; no step the child then makes (binding another
\* context, or a hook that writes to the context it sees) changes the context
\* the parent gets from get_current_trace_context() or what the parent reads
\* in it; and two requests never have the same trace context bound.
C20_Original ==
    [][ /\ (spawnedBy = NoStr /\ spawnedBy' # NoStr) => bound'[Child] = bound[spawnedBy']
        /\ (spawnedBy # NoStr
               /\ (bound'[Child] # bound[Child] \/ httpHeld'[Child] # httpHeld[Child]
                      \/ qpc'[Child] # qpc[Child])) =>
              /\ bound'[spawnedBy] = bound[spawnedBy]
              /\ bound[spawnedBy] # NoStr =>
                    heap'[bound[spawnedBy]] = heap[bound[spawnedBy]]
        /\ \A u, v \in Requests : (u # v /\ bound[u] # NoStr) => bound[u] # bound[v]
      ]_vars

\* the part of C20 that the context variable gives: the child starts with its
\* parent's binding, a binding made by one unit changes no other unit's, and
\* two requests never have the same trace context bound
C20_BindingIsolated ==
    [][ /\ (spawnedBy = NoStr /\ spawnedBy' # NoStr) => bound'[Child] = bound[spawnedBy']
        /\ \A u, v \in Units :
              (u # v /\ bound'[u] # bound[u] /\ ~(u = Child /\ spawnedBy = NoStr)) =>
                 (v = Child /\ spawnedBy = NoStr) \/ bound'[v] = bound[v]
        /\ \A u, v \in Requests : (u # v /\ bound[u] # NoStr) => bound[u] # bound[v]
      ]_vars

\* the child wrote a span into the context its parent still has bound
C20_Witness ==
    /\ spawnedBy # NoStr
    /\ bound[spawnedBy] # NoStr
    /\ bound[Child] = bound[spawnedBy]
    /\ httpHeld[Child].pc = "http"
    /\ httpHeld[Child].span_id \in SpanIds(heap[bound[spawnedBy]])

\* C21 as stated: the wrapper of an HTTP client ends as the original request
\* ended (same response, same exception), and the client span it created,
\* unfinished until then, is finished by that step, with status error exactly
\* when the original request raised.
C21_Original ==
    [][ \A u \in Units :
          /\ (httpHeld[u].pc = "http" /\ httpHeld[u].ctx # NoStr) =>
                SpanOf(heap[httpHeld[u].ctx], httpHeld[u].span_id).end_time = None
          /\ (httpHeld[u].pc = "http" /\ httpHeld'[u].pc = "idle") =>
                /\ tcall'[2] = tcall'[1]
                /\ httpHeld[u].ctx # NoStr =>
                      LET sp == SpanOf(heap'[httpHeld[u].ctx], httpHeld[u].span_id)
                      IN /\ sp.end_time # None
                         /\ (sp.status = "error") <=> (tcall'[1] # "response")
      ]_vars

\* C21: the wrapper of an HTTP client ends as the original request ended; when
\* the request returns or raises an Exception the client span, unfinished
\* until then, is finished by that step, with status error exactly when the
\* request raised, and no other span changes; when the request raises a
\* BaseException that is no Exception the span is left unfinished.
C21_OutcomeKept ==
    [][ \A u \in Units :
          /\ (httpHeld[u].pc = "http" /\ httpHeld[u].ctx # NoStr) =>
                SpanOf(heap[httpHeld[u].ctx], httpHeld[u].span_id).end_time = None
          /\ (httpHeld[u].pc = "http" /\ httpHeld'[u].pc = "idle") =>
                /\ tcall'[1] \in HttpOutcomes
                /\ tcall'[2] = tcall'[1]
                /\ (httpHeld[u].ctx # NoStr /\ tcall'[1] = "BaseException") =>
                      heap' = heap
                /\ (httpHeld[u].ctx # NoStr /\ tcall'[1] # "BaseException") =>
                      LET c == httpHeld[u].ctx
                          sp == SpanOf(heap'[c], httpHeld[u].span_id)
                      IN /\ sp.end_time # None
                         /\ (sp.status = "error") <=> (tcall'[1] = "Exception")
                         /\ sp.status \in {"ok", "error"}
                         /\ Len(heap'[c].spans) = Len(heap[c].spans)
                         /\ \A i \in 1..Len(heap[c].spans) :
                               heap[c].spans[i].span_id # httpHeld[u].span_id =>
                                  heap'[c].spans[i] = heap[c].spans[i]
                         /\ \A e \in CtxIds \ {c} : heap'[e] = heap[e]
      ]_vars

C21_Witness ==
    /\ tcall = <<"Exception", "Exception">>
    /\ \E c \in CtxIds :
          /\ Len(heap[c].spans) = MaxHookSpans
          /\ heap[c].spans[1].status = "ok"
          /\ heap[c].spans[1].end_time # None
          /\ heap[c].spans[2].status = "error"
          /\ heap[c].spans[2].end_time # None
    /\ \A u \in Units : httpHeld[u].pc = "idle"

\* C22: when _after_cursor_execute runs with a request id bound and a start
\* time recorded for the execution context, the entry of the context leaves
\* _query_start_times; a statement without "radar_" whose storage session
\* commits adds exactly one CapturedQuery, carrying the request id; a statement
\* with "radar_" adds none; and when the storage session raises nothing is
\* added and the hook still returns.
C22_AfterHookStores ==
    [][ \A u \in Units :
          (qpc[u] = "executing" /\ qpc'[u] = "idle" /\ reqId[u] # NoStr /\ u \in qstart) =>
             /\ u \notin qstart'
             /\ \A v \in Units \ {u} : (v \in qstart') <=> (v \in qstart)
             /\ tcall'[1] \in {"radar_", "statement"}
             /\ tcall'[2] \in {"committed", "Exception"}
             /\ tcall'[1] = "radar_" => queries' = queries
             /\ tcall'[2] = "Exception" => queries' = queries
             /\ (tcall'[1] = "statement" /\ tcall'[2] = "committed") =>
                   /\ Len(queries') = Len(queries) + 1
                   /\ queries'[Len(queries')] = reqId[u]
                   /\ \A i \in 1..Len(queries) : queries'[i] = queries[i]
      ]_vars

C22_Witness ==
    /\ tcall = <<"radar_", "committed">>
    /\ Len(queries) = 1
    /\ queries[1] \in RequestIds
    /\ qstart = {}
    /\ \E u \in Requests : qpc[u] = "executing" /\ reqId[u] = NoStr

\* C30: in every state, create_span without a parent gives the new span the
\* context's current_span_id as parent_span_id (None when none was set) and
\* create_span with a parent gives it that parent; and no step (finish_span,
\* add_span_log, set_current_span, create_span of another span) changes the
\* parent_span_id of a span the context already holds.
C30_ParentFixed ==
    [][ LET tc == heap["c1"]
            tn == heap'["c1"]
            n == Len(tc.spans)
        IN /\ \A parent \in HeldSpanIds \cup {None} :
                 LET made == CreateSpan(tc, nextSpan, "GET /items", parent, "server", now)
                 IN /\ Len(made.spans) = n + 1
                    /\ made.spans[n + 1].span_id = nextSpan
                    /\ made.spans[n + 1].parent_span_id =
                          (IF parent = None THEN tc.current_span_id ELSE parent)
                    /\ made.current_span_id = tc.current_span_id
           /\ Len(tn.spans) >= n
           /\ \A i \in 1..n :
                 /\ tn.spans[i].span_id = tc.spans[i].span_id
                 /\ tn.spans[i].parent_span_id = tc.spans[i].parent_span_id
           /\ Len(tn.spans) > n =>
                 /\ Len(tn.spans) = n + 1
                 /\ tn.spans[n + 1].parent_span_id
                       \in HeldSpanIds \cup {tc.current_span_id}
      ]_vars

\* a span created without a parent after set_current_span, whose parent is
\* the current span, is finished and logged, and the current span has moved on
C30_Witness ==
    /\ Len(heap["c1"].spans) = MaxSpans
    /\ heap["c1"].spans[1].parent_span_id = None
    /\ heap["c1"].spans[2].parent_span_id = 1
    /\ heap["c1"].current_span_id = 2
    /\ heap["c1"].spans[2].end_time # None
    /\ heap["c1"].spans[2].logs > 0

\* the callable a record was made for, read off the record: its key names the
\* callable up to f1 and f2, which the parameter name in kwargs_serialized
\* tells apart
C27_WrappedFor(r) ==
    CHOOSE f \in Funcs :
       /\ FunctionKey(f) = r.function_key
       /\ SerializeCallArguments(f, r.args).args = r.args_serialized
       /\ SerializeCallArguments(f, r.args).kwargs = r.kwargs_serialized

\* C27 as stated: when rerun(t) finds t and goes on to wrap, the callable it
\* wraps, and the runner it starts invokes, is the callable t was made for,
\* with t's captured arguments, whatever was wrapped under the same key since.
C27_Original ==
    [][ \A t \in Threads :
          (pc[t] = "rerun_lock" /\ pc'[t] = "rerun_wrap") =>
             LET task == Get(tasks, loc[t].target)
             IN /\ loc'[t].a = task.args
                /\ loc'[t].f = C27_WrappedFor(task)
      ]_vars

\* rerun of a task made for f1 is about to wrap f2
C27_Witness ==
    \E t \in Threads :
       /\ pc[t] = "rerun_wrap"
       /\ Has(tasks, loc[t].target)
       /\ C27_WrappedFor(Get(tasks, loc[t].target)) = "f1"
       /\ loc[t].f = "f2"

\* C29: with max_tasks >= 1 and one thread, when wrap returns the record of
\* its fresh id is in the registry, queued and without started_at, the
\* snapshot broadcast holds it, and the callable has not been invoked; the
\* callable of a task is invoked only by a step of its runner, once per
\* invocation of the runner, and never while wrap is under way.
C29_WrapDefers ==
    [][ /\ (pc["t1"] = "wrap_bcast" /\ pc'["t1"] = "idle" /\ maxTasks >= 1) =>
              LET id == loc["t1"].id
              IN /\ Has(tasks', id)
                 /\ Get(tasks', id).status = "queued"
                 /\ Get(tasks', id).started_at = None
                 /\ Get(tasks', id).ended_at = None
                 /\ id = nextId - 1
                 /\ id \notin evicted
                 /\ \A i, j \in 1..Len(tasks') : tasks'[i].id = tasks'[j].id => i = j
                 /\ \E k \in 1..Len(broadcast') :
                       broadcast'[k].id = id /\ broadcast'[k].status = "queued"
                 /\ calls'[id] = 0
                 /\ \E r \in runners' : r.id = id /\ r.f = loc["t1"].f /\ r.a = loc["t1"].a
        /\ \A id \in AllIds :
              calls'[id] # calls[id] =>
                 /\ calls'[id] = calls[id] + 1
                 /\ pc["t1"] = "call" /\ loc["t1"].op = "run" /\ loc["t1"].id = id
                 /\ pc'["t1"] # "call"
        /\ \A id \in AllIds : calls[id] <= 1
        /\ pc["t1"] \in {"wrap_lock", "wrap_bcast", "rerun_wrap"} => calls' = calls
        /\ (pc["t1"] = "call" /\ pc'["t1"] # "call") =>
              calls'[loc["t1"].id] = calls[loc["t1"].id] + 1
      ]_vars

\* wrap has returned while a finished task of an earlier wrap fills a
\* registry of one
C29_Witness ==
    /\ maxTasks = 1
    /\ pc["t1"] = "idle"
    /\ Len(tasks) = 1
    /\ tasks[1].id = 2
    /\ tasks[1].status = "queued"
    /\ calls[1] = 1
    /\ calls[2] = 0
    /\ 1 \in evicted
    /\ \E r \in runners : r.id = 2

\* C28 as stated: a step that evicts a task whose status is queued or running
\* leaves no task in the registry whose status is finished or failed.
C28_Original ==
    [][ \A id \in evicted' \ evicted :
          LET status == IF Has(tasks, id) THEN Get(tasks, id).status ELSE "queued"
          IN status \in {"queued", "running"} =>
                \A i \in 1..Len(tasks') : tasks'[i].status \notin {"finished", "failed"}
      ]_vars

\* C24 as stated: a snapshot delivered to a subscriber shows no task at an
\* earlier point of its life (queued before running before finished or failed)
\* than a snapshot the subscriber received before it.
C24_Original ==
    [][ \A t \in Workers :
          ( /\ "w1" \in sending'[t].sent \ sending[t].sent
            /\ ws["w1"].first # <<>> ) =>
             \A i \in 1..Len(sending[t].snap), j \in 1..Len(ws["w1"].first[1]) :
                 sending[t].snap[i].id = ws["w1"].first[1][j].id =>
                    C11_Stage(sending[t].snap[i]) >= C11_Stage(ws["w1"].first[1][j])
      ]_vars

\* C23 as stated: no record list_tasks() returns mixes fields from before and
\* after a transition: a queued record has no started_at, and a record has
\* error fields exactly when its status is failed.
C23_Consistent(d) ==
    /\ d.status = "queued" => d.started_at = <<>>
    /\ d.status # "queued" => d.started_at # <<>>
    /\ d.status = "failed" <=> d.error_message # NoStr
    /\ d.status = "failed" <=> d.error_trace # NoStr

C23_Original == \A i \in 1..Len(rd.out) : C23_Consistent(rd.out[i])

\* the registry itself is consistent at every instant
C23_RegistryConsistent == \A i \in 1..Len(tasks) : C23_Consistent(ToDict(tasks[i]))

C26_Original ==
    \A t \in AwaitThreads :
        (pc[t] = "call") ~> (pc[t] = "idle")

\* on a worker thread the runner returns
C26_WorkerReturns == (pc["t1"] = "call") ~> (pc["t1"] = "idle")

\* a task is marked finished only after the awaitable of its callable is done
C26_FinishedAfterWork ==
    [][ \A t \in AwaitThreads :
          (pc[t] \in {"await", "asyncio_run", "future_result"} /\ pc'[t] # pc[t]
             /\ Has(tasks', loc[t].id) /\ Get(tasks', loc[t].id).status = "finished")
            => coro[t].state = "done"
      ]_vars

\* the event loop's thread waits in future.result() for an awaitable that
\* only this thread's loop can run
C26_Witness ==
    /\ pc[LoopThread] = "future_result"
    /\ coro[LoopThread] = [loop |-> "main", state |-> "scheduled"]
    /\ ~ LoopTurns("main")

\* C31 as stated: every span of every trace context has a status among ok,
\* error and timeout, and every finished span has end_time >= start_time
\* (duration_ms, their difference, is then not negative).
C31_Original ==
    \A c \in CtxIds : \A i \in 1..Len(heap[c].spans) :
        LET span == heap[c].spans[i]
        IN /\ span.status \in {"ok", "error", "timeout"}
           /\ span.end_time # None => span.end_time - span.start_time >= 0

\* the times of a finished span are in order
C31_TimesInOrder ==
    \A c \in CtxIds : \A i \in 1..Len(heap[c].spans) :
        heap[c].spans[i].end_time # None =>
            heap[c].spans[i].end_time >= heap[c].spans[i].start_time

\* the number of parent_span_id links from span id up to the root of tc, or
\* -1 when the links do not lead to the root
RECURSIVE C32_Links(_, _, _)
C32_Links(tc, id, fuel) ==
    IF id = tc.root_span_id THEN 0
    ELSE IF fuel = 0 \/ id \notin SpanIds(tc) THEN 0 - 1
    ELSE LET up == C32_Links(tc, SpanOf(tc, id).parent_span_id, fuel - 1)
         IN IF up < 0 THEN 0 - 1 ELSE up + 1

\* C32: the relation rows save_trace_context writes for a trace context: a
\* span other than the root whose parent links lead to the root is the child
\* of exactly one row, with its parent_span_id as parent and its number of
\* links to the root as depth; the root and the spans whose links do not lead
\* to the root are the child of no row, and every row's child is a span.
C32_Relations ==
    [][ \A c \in db'.traces \ db.traces :
          LET tc   == heap[c]
              new  == SubSeq(db'.relations, Len(db.relations) + 1, Len(db'.relations))
              n    == Len(tc.spans)
          IN /\ \A i \in 1..Len(new) :
                   new[i].trace_id = c /\ new[i].child_span_id \in SpanIds(tc)
             /\ \A id \in SpanIds(tc) :
                   LET rows  == {i \in 1..Len(new) : new[i].child_span_id = id}
                       links == C32_Links(tc, id, n)
                   IN IF links > 0
                      THEN /\ Cardinality(rows) = 1
                           /\ \A i \in rows :
                                 /\ new[i].parent_span_id = SpanOf(tc, id).parent_span_id
                                 /\ new[i].depth = links
                      ELSE rows = {}
      ]_vars

\* a saved trace with a child of the root and a grandchild
C32_Witness ==
    \E i, j \in 1..Len(db.relations) :
        /\ db.relations[i].depth = 1
        /\ db.relations[j].depth = 2
        /\ db.relations[j].parent_span_id = db.relations[i].child_span_id
        /\ db.relations[i].trace_id = db.relations[j].trace_id

\* C33 as stated: a trace context that save_trace_context has persisted
\* accepts no further span: its spans stay the spans of its radar_spans rows.
C33_Original ==
    \A c \in db.traces :
        SpanIds(heap[c]) = {db.spans[i].span_id : i \in TraceSpans(db, c)}

\* C34: whenever the registry lock is free, the function_key of every task
\* record in the registry has a callable in self._functions, before and
\* after every step; so the lock block of rerun, for a task that is in the
\* registry, raises no KeyError and goes on to wrap; and a step that evicts
\* leaves self._functions as it was but for the callable that step registers.
C34_Retained(reg, fns) == \A i \in 1..Len(reg) : fns[reg[i].function_key] # NoFunc

C34_CallablesRetained ==
    [][ /\ lock = NoStr => C34_Retained(tasks, functions)
        /\ lock' = NoStr => C34_Retained(tasks', functions')
        /\ \A t \in Threads :
              (pc[t] = "rerun_lock" /\ pc'[t] # "rerun_lock" /\ Has(tasks, loc[t].target))
                 => (pc'[t] = "rerun_wrap" /\ loc'[t].f # NoFunc)
        /\ evicted' # evicted =>
              \A k \in Keys : functions[k] # NoFunc => functions'[k] # NoFunc
      ]_vars

\* a task was evicted and a task that is in the registry is being rerun
C34_Witness ==
    /\ evicted # {}
    /\ tasks # <<>>
    /\ \E t \in Threads : pc[t] = "rerun_wrap" /\ Has(tasks, loc[t].target)
    /\ C34_Retained(tasks, functions)

\* C35 as stated: for every task record in the registry: when ended_at is set,
\* started_at is set, ended_at >= started_at and the status is finished or
\* failed; error_message and error_trace are set exactly when the status is
\* failed; a queued record has neither started_at nor ended_at.
C35_Original ==
    \A i \in 1..Len(tasks) :
        LET r == tasks[i]
        IN /\ r.ended_at # None =>
                 /\ r.started_at # None
                 /\ r.ended_at >= r.started_at
                 /\ r.status \in {"finished", "failed"}
           /\ r.status = "failed" <=> r.error_message # NoStr
           /\ r.status = "failed" <=> r.error_trace # NoStr
           /\ r.status = "queued" => (r.started_at = None /\ r.ended_at = None)

\* the same without the status of a record that has its ended_at
C35_ButStatus ==
    \A i \in 1..Len(tasks) :
        LET r == tasks[i]
        IN /\ r.ended_at # None => (r.started_at # None /\ r.ended_at >= r.started_at)
           /\ r.status = "failed" <=> r.error_message # NoStr
           /\ r.status = "failed" <=> r.error_trace # NoStr
           /\ r.status = "queued" => (r.started_at = None /\ r.ended_at = None)

\* C36: a runner whose task record is not in the registry: its _mark_running
\* goes straight to the call of the callable, the step after the call goes
\* straight to _finalize, and _finalize returns; each of these steps leaves
\* the registry, the retained callables, the evicted records and the last
\* broadcast as they were and starts no broadcast; the callable has been
\* invoked exactly once when the runner returns.
C36_AbsentRecord ==
    [][ \A t \in Threads :
          /\ (Idle(t) /\ loc'[t].op = "run" /\ ~Has(tasks, loc'[t].id)) =>
                /\ pc'[t] = "call"
                /\ UNCHANGED <<tasks, functions, evicted, broadcast, sending>>
          /\ (loc[t].op = "run" /\ pc[t] = "call" /\ pc'[t] # "call"
                /\ ~Has(tasks, loc[t].id)) =>
                /\ pc'[t] = "finalize"
                /\ calls'[loc[t].id] = calls[loc[t].id] + 1
                /\ UNCHANGED <<tasks, functions, evicted, broadcast, sending>>
          /\ (loc[t].op = "run" /\ pc[t] = "finalize" /\ pc'[t] # "finalize"
                /\ ~Has(tasks, loc[t].id)) =>
                /\ pc'[t] = "idle"
                /\ calls[loc[t].id] = 1
                /\ UNCHANGED <<tasks, functions, evicted, broadcast, sending, calls>>
      ]_vars

\* the runner of an evicted task has called its callable and is about to
\* finalize, while another record is in the registry
C36_Witness ==
    \E t \in Threads :
        /\ loc[t].op = "run"
        /\ pc[t] = "finalize"
        /\ loc[t].id \in evicted
        /\ ~Has(tasks, loc[t].id)
        /\ calls[loc[t].id] = 1
        /\ tasks # <<>>

C38_Original ==
    [][ \A t \in Workers :
          ( /\ "w1" \in sending'[t].sent \ sending[t].sent
            /\ ws["w1"].pc = "open"
            /\ pc[t] = "final_bcast"
            /\ runners = {}
            /\ nextId > idLimit
            /\ \A u \in Threads \ {t} : Idle(u) /\ sending[u].stage = "none" )
          => sending[t].snap = ListTasks(tasks)
      ]_vars

\* C39: create_span, finish_span and add_span_log (called directly, by the
\* HTTP instrumentation or by the query hooks) leave current_span_id of every
\* trace context as it was; a step that changes it is a set_current_span
\* call, which sets it to its argument; and a span created without a parent
\* argument while current_span_id is None has no parent.
C39_CurrentSpanFrame ==
    [][ \A c \in CtxIds :
          /\ heap'[c].current_span_id # heap[c].current_span_id =>
                /\ heap'[c].spans = heap[c].spans
                /\ heap'[c].root_span_id = heap[c].root_span_id
                /\ heap'[c].current_span_id \in HeldSpanIds
                /\ tcall' = NoCall
          /\ heap'[c].spans # heap[c].spans =>
                heap'[c].current_span_id = heap[c].current_span_id
          /\ \A id \in HeldSpanIds \cup {None} :
                /\ CreateSpan(heap[c], nextSpan, "DB SELECT", id, "client", now).current_span_id
                     = heap[c].current_span_id
                /\ FinishSpan(heap[c], id, "ok", now).current_span_id
                     = heap[c].current_span_id
                /\ AddSpanLog(heap[c], id).current_span_id = heap[c].current_span_id
          /\ heap[c].current_span_id = None =>
                SpanOf(CreateSpan(heap[c], nextSpan, "GET /items", None, "server", now),
                       nextSpan).parent_span_id = None
      ]_vars

\* the current span has been finished and is still the current span
C39_Witness ==
    /\ heap["c1"].current_span_id \in SpanIds(heap["c1"])
    /\ SpanOf(heap["c1"], heap["c1"].current_span_id).end_time # None
    /\ SpanOf(heap["c1"], heap["c1"].current_span_id).parent_span_id # None
    /\ tcall = <<"finish_span", "found">>

\* C40: in every trace context a span's parent, when it is a span of the
\* context, was created before the span, so the parent links have no cycle;
\* calculate_depth from the root ends, and the children of the rows it
\* returns are the spans whose links lead to the root, each once.
C40_Acyclic ==
    \A c \in CtxIds :
        LET tc == heap[c]
            n  == Len(tc.spans)
        IN /\ \A i, j \in 1..n :
                 tc.spans[j].span_id = tc.spans[i].parent_span_id => j < i
           /\ tc.root_span_id # None =>
                 LET rel == CalculateDepth(tc.root_span_id, tc.spans, 0)
                 IN /\ \A a, b \in 1..Len(rel) : a # b => rel[a][2] # rel[b][2]
                    /\ {rel[a][2] : a \in 1..Len(rel)}
                         = {id \in SpanIds(tc) : C32_Links(tc, id, n) > 0}

\* a chain of three spans made through the current span
C40_Witness ==
    LET tc == heap["c1"]
    IN /\ Len(tc.spans) = 3
       /\ tc.spans[2].parent_span_id = tc.spans[1].span_id
       /\ tc.spans[3].parent_span_id = tc.spans[2].span_id
       /\ tc.current_span_id = tc.spans[2].span_id
       /\ Len(CalculateDepth(tc.root_span_id, tc.spans, 0)) = 2
=============================================================================
